---------------------------- MODULE Spec2Model ----------------------------
(***************************************************************************)
(* Identity infrastructure of the terminus backend:                        *)
(*   - the Snowflake id generator (backend/internal/gid/snowflake.go),     *)
(*     one instance shared by concurrent callers of Generate();            *)
(*   - the GID codec (package gid: String, Base64, Parse, ParseBase64).    *)
(*                                                                         *)
(* Numbers.  TLC integers are 32 bits wide, the program's are 64.  Wall    *)
(* clock readings (time.Now().UnixMilli()) are kept as two limbs           *)
(* <<hi, lo>> of base 10^6 so that the real epoch is used; `now` and the   *)
(* ids are plain integers, and MaxClock keeps now << 22 below 2^31, so no  *)
(* id of the model is truncated.  The ids of the GID codec range over all  *)
(* of uint64 and are kept as four 16-bit limbs.                            *)
(***************************************************************************)
EXTENDS Integers, Sequences, FiniteSets, TLC

(***************************************************************************)
(* Bounds of the model.                                                    *)
(***************************************************************************)
NumCallers == 2      \* goroutines sharing the generator
MaxCalls   == 2      \* Generate() invocations started in one behaviour
MaxClock   == 2      \* wall clock ranges over epoch .. epoch + MaxClock ms

(***************************************************************************)
(* snowflake.go constants (lines 9-25).                                    *)
(***************************************************************************)
MILLION == 1000 * 1000
epoch == <<1704067, 200000>>            \* 1704067200000 ms
timestampBits == 41
machineIDBits == 10
sequenceBits  == 12
maxMachineID == (2 ^ machineIDBits) - 1
maxSequence  == (2 ^ sequenceBits) - 1
timestampShift == machineIDBits + sequenceBits
machineIDShift == sequenceBits
MaxUint16 == 65535

(***************************************************************************)
(* Integer helpers: Go's &, |, <<, >> on non-negative integers, and        *)
(* millisecond arithmetic on two-limb wall clock readings.                 *)
(***************************************************************************)
RECURSIVE BitAnd(_, _)
BitAnd(a, b) ==
    IF a = 0 \/ b = 0 THEN 0
    ELSE ((a % 2) * (b % 2)) + 2 * BitAnd(a \div 2, b \div 2)

RECURSIVE BitOr(_, _)
BitOr(a, b) ==
    IF a = 0 THEN b
    ELSE IF b = 0 THEN a
    ELSE (IF (a % 2) = 1 \/ (b % 2) = 1 THEN 1 ELSE 0)
         + 2 * BitOr(a \div 2, b \div 2)

ShiftLeft(x, n)  == x * (2 ^ n)
ShiftRight(x, n) == x \div (2 ^ n)

\* t + n milliseconds, t a two-limb reading, n a small integer
AddMillis(t, n) ==
    <<t[1] + ((t[2] + n) \div MILLION), (t[2] + n) % MILLION>>

\* t - e in milliseconds, as an integer
SubMillis(t, e) == (t[1] - e[1]) * MILLION + (t[2] - e[2])

(***************************************************************************)
(* State.                                                                  *)
(***************************************************************************)
VARIABLES
    g,          \* the *Generator returned by NewGenerator: None is nil
    newErr,     \* the error returned by NewGenerator, or Nil
    tagArg,     \* the machineID argument NewGenerator was called with
    mu,         \* g.mu: the caller holding the mutex, or NoHolder
    clock,      \* what time.Now().UnixMilli() returns at this instant
    regressed,  \* history: the wall clock has moved backward
    pc,         \* position of each caller inside Generate()
    now,        \* Generate's local `now` of each caller
    wall,       \* the time.Now().UnixMilli() reading behind `now`
    started,    \* number of Generate() invocations so far
    returned,   \* history: ids returned, in order of return, as runs
    lastRet,    \* history: the most recent return and what it was built from
    seen,       \* history: `now` and g.lastTime as each call compared them
    gidIn,      \* GID codec: the GID value in hand
    text,       \* GID codec: the text in hand
    parsed,     \* GID codec: the result of the last Parse / ParseBase64
    op,         \* GID codec: the last operation applied
    codec,      \* cursor codec: the CursorCodec value in use
    curIn,      \* cursor codec: the payload in hand
    token,      \* cursor codec: the token in hand
    encoded,    \* cursor codec: what Encode returned
    decoded,    \* cursor codec: what Decode returned
    rows,       \* list handlers: the collection the query selects from
    request,    \* list handlers: the request being served
    written,    \* list handlers: what the handler wrote for the request
    pages,      \* history: the requests and pages of the walk so far
    lpc,        \* the client's position in its traversal
    churn,      \* history: the rows present since the walk began, and
                \* the number of rows inserted or deleted since
    gens,       \* two instances: the Generator of each
    clocks,     \* two instances: the wall clock of each one's host
    waiting,    \* two instances: `now` of the call inside the busy-wait
    issued,     \* two instances, history: the ids each returned, as runs
    minted,     \* gid column: an id Generate() returned, with its inputs
    column,     \* gid column: the BIGINT value stored for it
    loaded,     \* gid column: the uint64 a handler made of the column
    pageCall,   \* ParsePageParams: the query and the limits of a call
    pageOut     \* ParsePageParams: what the call returned

genVars == <<g, newErr, tagArg, mu, clock, regressed, pc, now, wall,
             started, returned, lastRet, seen>>
gidVars == <<gidIn, text, parsed, op>>
curVars == <<codec, curIn, token, encoded, decoded>>
pageVars == <<rows, request, written, pages, lpc, churn>>
pairVars == <<gens, clocks, waiting, issued>>
colVars == <<minted, column, loaded>>
parseVars == <<pageCall, pageOut>>
vars == <<g, newErr, tagArg, mu, clock, regressed, pc, now, wall,
          started, returned, lastRet, seen, gidIn, text, parsed, op,
          codec, curIn, token, encoded, decoded,
          rows, request, written, pages, lpc, churn,
          gens, clocks, waiting, issued, minted, column, loaded,
          pageCall, pageOut>>

Nil      == "nil"
\* an optional value (a pointer that may be nil): << >> or <<x>>
None     == << >>
Some(x)  == <<x>>
NoHolder == 0
Callers  == 1 .. NumCallers

\* machineID arguments tried (the parameter is a uint16)
MachineTags == {0, maxMachineID, maxMachineID + 1, MaxUint16}

\* wall clock readings of the model
ClockValues == { AddMillis(epoch, r) : r \in 0 .. MaxClock }

(***************************************************************************)
(* NewGenerator (snowflake.go 37-46).                                      *)
(***************************************************************************)
NewGenerator_OffByOne(machineID) ==
    IF machineID >= maxMachineID
    THEN [gen |-> None, err |-> "machine ID must be between 0 and 1023"]
    ELSE [gen |-> Some([machineID |-> machineID, sequence |-> 0,
                         lastTime |-> 0]),
          err |-> Nil]

NewGenerator(machineID) ==
    IF machineID > maxMachineID
    THEN [gen |-> None, err |-> "machine ID must be between 0 and 1023"]
    ELSE [gen |-> Some([machineID |-> machineID, sequence |-> 0,
                         lastTime |-> 0]),
          err |-> Nil]

(***************************************************************************)
(* The return expression of Generate (snowflake.go 70-72) and the          *)
(* extractors (75-89).                                                     *)
(***************************************************************************)
Pack_MachineShift(nw, machineID, sequence) ==
    BitOr(BitOr(ShiftLeft(nw, timestampShift),
                ShiftLeft(machineID, machineIDBits)),
          sequence)

Pack_MachineUnshifted(nw, machineID, sequence) ==
    BitOr(BitOr(ShiftLeft(nw, timestampShift), machineID), sequence)

Pack(nw, machineID, sequence) ==
    BitOr(BitOr(ShiftLeft(nw, timestampShift),
                ShiftLeft(machineID, machineIDShift)),
          sequence)

ExtractTime(id) == AddMillis(epoch, ShiftRight(id, timestampShift))

ExtractMachineID(id) == BitAnd(ShiftRight(id, machineIDShift), maxMachineID)

ExtractSequence(id) == BitAnd(id, maxSequence)

\* g.sequence = (g.sequence + 1) & maxSequence   (snowflake.go 57)
NextSequence_NoMask(s) == s + 1

NextSequence(s) == BitAnd(s + 1, maxSequence)

(***************************************************************************)
(* A generator that has served calls one after the other, all within the   *)
(* wall clock millisecond epoch + c, up to sequence number s: the state    *)
(* those Generate() calls leave behind, and the ids they returned.  The    *)
(* first call takes the `now == lastTime` branch, and so starts at         *)
(* sequence 1, exactly when c = 0, the initial lastTime.                   *)
(*                                                                         *)
(* The history of returned ids is kept as a sequence of runs: the run      *)
(* [first |-> a, count |-> n] stands for the n ids a, a + 1, ..., a + n - 1 *)
(* returned in that order.  Calls within one millisecond return one run:   *)
(* the sequence number is the low field of the id and grows by one.        *)
(***************************************************************************)
Run(first, count) == [first |-> first, count |-> count]

LastId(run) == run.first + run.count - 1

FirstSeq(c) == IF c = 0 THEN 1 ELSE 0

WarmGenerator(tag, c, s) ==
    [machineID |-> tag, sequence |-> s, lastTime |-> c]

WarmReturned(tag, c, s) ==
    << Run(Pack(c, tag, FirstSeq(c)), s - FirstSeq(c) + 1) >>

\* sequence number reached at Init: the last one of a millisecond
WarmSequences == {maxSequence}

\* machine tag of the generator in use at Init
WarmTags == {maxMachineID}

(***************************************************************************)
(* Text.  A Go string is the sequence of its bytes; literals are written   *)
(* with Str from one-character strings.                                    *)
(***************************************************************************)
AsciiPrintable ==
    <<" ", "!", "\"", "#", "$", "%", "&", "'", "(", ")", "*", "+",
       ",", "-", ".", "/", "0", "1", "2", "3", "4", "5", "6", "7",
       "8", "9", ":", ";", "<", "=", ">", "?", "@", "A", "B", "C",
       "D", "E", "F", "G", "H", "I", "J", "K", "L", "M", "N", "O",
       "P", "Q", "R", "S", "T", "U", "V", "W", "X", "Y", "Z", "[",
       "backslash", "]", "^", "_", "backtick", "a", "b", "c", "d", "e", "f", "g",
       "h", "i", "j", "k", "l", "m", "n", "o", "p", "q", "r", "s",
       "t", "u", "v", "w", "x", "y", "z", "{", "|", "}", "~">>

\* the byte of a printable ASCII character (' ' is 32)
Byte(ch) == 31 + CHOOSE i \in DOMAIN AsciiPrintable : AsciiPrintable[i] = ch

Str(chars) == [i \in DOMAIN chars |-> Byte(chars[i])]

Slash == Byte("/")

\* strings.HasPrefix, strings.TrimPrefix
HasPrefix(s, prefix) ==
    Len(s) >= Len(prefix) /\ SubSeq(s, 1, Len(prefix)) = prefix

TrimPrefix(s, prefix) ==
    IF HasPrefix(s, prefix) THEN SubSeq(s, Len(prefix) + 1, Len(s)) ELSE s

\* strings.Index(s, "/"): position of the first '/', 0 when there is none
IndexSlash(s) ==
    IF \E i \in DOMAIN s : s[i] = Slash
    THEN CHOOSE i \in DOMAIN s :
            s[i] = Slash /\ \A j \in 1 .. (i - 1) : s[j] # Slash
    ELSE 0

\* strings.Split(s, "/"): cut at every '/'
RECURSIVE SplitAll(_)
SplitAll(s) ==
    IF IndexSlash(s) = 0 THEN <<s>>
    ELSE <<SubSeq(s, 1, IndexSlash(s) - 1)>>
         \o SplitAll(SubSeq(s, IndexSlash(s) + 1, Len(s)))

\* strings.SplitN(s, "/", 2): cut at the first '/' only
SplitN2(s) ==
    IF IndexSlash(s) = 0 THEN <<s>>
    ELSE <<SubSeq(s, 1, IndexSlash(s) - 1),
           SubSeq(s, IndexSlash(s) + 1, Len(s))>>

(***************************************************************************)
(* uint64 values: four 16-bit limbs, most significant first.               *)
(***************************************************************************)
LimbBase == 2 ^ 16

U64(n) == <<0, 0, n \div LimbBase, n % LimbBase>>      \* 0 <= n < 2^31

MaxUint64 == <<LimbBase - 1, LimbBase - 1, LimbBase - 1, LimbBase - 1>>
MaxUint32 == <<0, 0, LimbBase - 1, LimbBase - 1>>

\* maxUint64/10 + 1 = 0x199999999999999A, the cutoff of strconv.ParseUint
Cutoff10 == <<6553, 39321, 39321, 39322>>

U64Less(a, b) ==
    \E i \in 1 .. 4 : a[i] < b[i] /\ \A j \in 1 .. (i - 1) : a[j] = b[j]

\* u / 10 and u % 10
DivMod10(u) ==
    LET c1 == u[1]
        c2 == (c1 % 10) * LimbBase + u[2]
        c3 == (c2 % 10) * LimbBase + u[3]
        c4 == (c3 % 10) * LimbBase + u[4]
    IN  [quo |-> <<c1 \div 10, c2 \div 10, c3 \div 10, c4 \div 10>>,
         rem |-> c4 % 10]

\* u * 10 + d in 64 bits, and whether the true result exceeds 64 bits
MulAdd10(u, d) ==
    LET t4 == u[4] * 10 + d
        t3 == u[3] * 10 + (t4 \div LimbBase)
        t2 == u[2] * 10 + (t3 \div LimbBase)
        t1 == u[1] * 10 + (t2 \div LimbBase)
    IN  [val |-> <<t1 % LimbBase, t2 % LimbBase, t3 % LimbBase,
                   t4 % LimbBase>>,
         wrapped |-> t1 >= LimbBase]

\* the %d verb of fmt on a uint64: decimal digits, no sign, no padding
RECURSIVE FormatUint(_)
FormatUint(u) ==
    IF U64Less(u, U64(10)) THEN <<Byte("0") + u[4]>>
    ELSE FormatUint(DivMod10(u).quo) \o <<Byte("0") + DivMod10(u).rem>>

IsDigit(c) == Byte("0") <= c /\ c <= Byte("9")

\* strconv.ParseUint(s, 10, bitSize): the digit loop from position i with
\* the value n accumulated so far
RECURSIVE ParseDigits(_, _, _, _)
ParseDigits(s, i, n, maxVal) ==
    IF i > Len(s) THEN [val |-> n, err |-> Nil]
    ELSE IF ~IsDigit(s[i]) THEN [val |-> U64(0), err |-> "ErrSyntax"]
    ELSE IF ~U64Less(n, Cutoff10) THEN [val |-> maxVal, err |-> "ErrRange"]
    ELSE LET n1 == MulAdd10(n, s[i] - Byte("0"))
         IN  IF n1.wrapped \/ U64Less(maxVal, n1.val)
             THEN [val |-> maxVal, err |-> "ErrRange"]
             ELSE ParseDigits(s, i + 1, n1.val, maxVal)

ParseUint(s, bitSize) ==
    LET maxVal == IF bitSize = 64 THEN MaxUint64 ELSE MaxUint32
    IN  IF s = << >> THEN [val |-> U64(0), err |-> "ErrSyntax"]
        ELSE ParseDigits(s, 1, U64(0), maxVal)

(***************************************************************************)
(* base64.RawURLEncoding: RFC 4648 section 5 alphabet, no padding.         *)
(***************************************************************************)
encodeURL ==
    Str(<<"A", "B", "C", "D", "E", "F", "G", "H", "I", "J", "K", "L", "M",
          "N", "O", "P", "Q", "R", "S", "T", "U", "V", "W", "X", "Y", "Z",
          "a", "b", "c", "d", "e", "f", "g", "h", "i", "j", "k", "l", "m",
          "n", "o", "p", "q", "r", "s", "t", "u", "v", "w", "x", "y", "z",
          "0", "1", "2", "3", "4", "5", "6", "7", "8", "9", "-", "_">>)

Sextet(v) == encodeURL[v + 1]

\* EncodeToString without the padding step
RECURSIVE EncodeRaw(_)
EncodeRaw(b) ==
    IF Len(b) = 0 THEN << >>
    ELSE IF Len(b) = 1 THEN
        LET v == b[1] * 65536
        IN  <<Sextet(v \div 262144), Sextet((v \div 4096) % 64)>>
    ELSE IF Len(b) = 2 THEN
        LET v == b[1] * 65536 + b[2] * 256
        IN  <<Sextet(v \div 262144), Sextet((v \div 4096) % 64),
              Sextet((v \div 64) % 64)>>
    ELSE
        LET v == b[1] * 65536 + b[2] * 256 + b[3]
        IN  <<Sextet(v \div 262144), Sextet((v \div 4096) % 64),
              Sextet((v \div 64) % 64), Sextet(v % 64)>>
            \o EncodeRaw(SubSeq(b, 4, Len(b)))

\* the '=' characters a padded encoding appends
Padding(n) ==
    IF n % 3 = 1 THEN Str(<<"=", "=">>)
    ELSE IF n % 3 = 2 THEN Str(<<"=">>)
    ELSE << >>

\* the decode map: the value of an alphabet character
IsAlphabet(c) == \E i \in DOMAIN encodeURL : encodeURL[i] = c

DecodeMap(c) == (CHOOSE i \in DOMAIN encodeURL : encodeURL[i] = c) - 1

\* the decoder skips '\r' and '\n' wherever they are
StripNewlines(s) == SelectSeq(s, LAMBDA c : c # 10 /\ c # 13)

RECURSIVE DecodeQuanta(_)
DecodeQuanta(s) ==
    IF Len(s) = 0 THEN << >>
    ELSE IF Len(s) = 2 THEN
        LET v == DecodeMap(s[1]) * 262144 + DecodeMap(s[2]) * 4096
        IN  <<v \div 65536>>
    ELSE IF Len(s) = 3 THEN
        LET v == DecodeMap(s[1]) * 262144 + DecodeMap(s[2]) * 4096
                 + DecodeMap(s[3]) * 64
        IN  <<v \div 65536, (v \div 256) % 256>>
    ELSE
        LET v == DecodeMap(s[1]) * 262144 + DecodeMap(s[2]) * 4096
                 + DecodeMap(s[3]) * 64 + DecodeMap(s[4])
        IN  <<v \div 65536, (v \div 256) % 256, v % 256>>
            \o DecodeQuanta(SubSeq(s, 5, Len(s)))

\* base64.RawURLEncoding.DecodeString
DecodeString(s) ==
    LET t == StripNewlines(s)
    IN  IF (\E i \in DOMAIN t : ~IsAlphabet(t[i])) \/ Len(t) % 4 = 1
        THEN [bytes |-> << >>, err |-> "CorruptInputError"]
        ELSE [bytes |-> DecodeQuanta(t), err |-> Nil]

(***************************************************************************)
(* Entity types and the GID codec (package gid).                           *)
(***************************************************************************)
EntityProduct        == Str(<<"P", "r", "o", "d", "u", "c", "t">>)
EntityProductVariant ==
    Str(<<"P", "r", "o", "d", "u", "c", "t", "V", "a", "r", "i", "a", "n",
          "t">>)
EntityStore          == Str(<<"S", "t", "o", "r", "e">>)
EntityTenant         == Str(<<"T", "e", "n", "a", "n", "t">>)
EntityUser           == Str(<<"U", "s", "e", "r">>)
EntityRole           == Str(<<"R", "o", "l", "e">>)
EntityPermission     ==
    Str(<<"P", "e", "r", "m", "i", "s", "s", "i", "o", "n">>)
EntityCustomDomain   ==
    Str(<<"C", "u", "s", "t", "o", "m", "D", "o", "m", "a", "i", "n">>)

ValidEntityTypes ==
    {EntityProduct, EntityProductVariant, EntityStore, EntityTenant,
     EntityUser, EntityRole, EntityPermission, EntityCustomDomain}

\* EntityType.IsValid: a lookup in the ValidEntityTypes map
IsValid_Any(e) == TRUE

IsValid(e) == e \in ValidEntityTypes

Scheme    == Str(<<"g", "i", "d">>)
Namespace == Str(<<"m", "y", "s", "t", "o", "r", "e", "o", "s">>)
Prefix    == Scheme \o Str(<<":", "/", "/">>) \o Namespace \o <<Slash>>

\* the GID struct; GID{} is the zero value
GID(type, id) == [Type |-> type, ID |-> id]

ZeroGID == GID(<< >>, U64(0))

\* the causes of a Parse / ParseBase64 failure, by their error text
MissingPrefix     == "invalid GID: missing prefix gid://mystoreos/"
MalformedBody     == "invalid GID: expected format gid://mystoreos/EntityType/id"
UnknownEntityType == "invalid GID: unknown entity type"
InvalidID         == "invalid GID: invalid ID"
InvalidEncoding   == "invalid GID: base64 decode failed"

\* fmt.Sprintf("%s%s/%d", Prefix, g.Type, g.ID)
String(gid) == Prefix \o gid.Type \o <<Slash>> \o FormatUint(gid.ID)

\* base64.RawURLEncoding.EncodeToString([]byte(g.String()))
Base64_Padded(gid) ==
    EncodeRaw(String(gid)) \o Padding(Len(String(gid)))

Base64(gid) == EncodeRaw(String(gid))

\* strings.SplitN(remainder, "/", 2)
SplitRemainder_Every(remainder) == SplitAll(remainder)

SplitRemainder(remainder) == SplitN2(remainder)

\* strconv.ParseUint(parts[1], 10, 64)
ParseID_Bits32(segment) == ParseUint(segment, 32)

\* strconv.ParseUint(parts[1], 0, 64): a leading 0 announces base 8
RECURSIVE OctalValue(_)
OctalValue(s) ==
    IF s = << >> THEN 0
    ELSE 8 * OctalValue(SubSeq(s, 1, Len(s) - 1)) + (s[Len(s)] - Byte("0"))

ParseID_AnyBase(segment) ==
    IF /\ Len(segment) \in 2 .. 8
       /\ segment[1] = Byte("0")
       /\ \A i \in DOMAIN segment : segment[i] \in Byte("0") .. Byte("7")
    THEN [val |-> U64(OctalValue(segment)), err |-> Nil]
    ELSE ParseUint(segment, 64)

ParseID(segment) == ParseUint(segment, 64)

Parse_IDFirst(s) ==
    IF ~HasPrefix(s, Prefix) THEN [gid |-> ZeroGID, err |-> MissingPrefix]
    ELSE LET parts == SplitRemainder(TrimPrefix(s, Prefix))
         IN  IF Len(parts) # 2 THEN [gid |-> ZeroGID, err |-> MalformedBody]
             ELSE IF ParseID(parts[2]).err # Nil
             THEN [gid |-> ZeroGID, err |-> InvalidID]
             ELSE IF ~IsValid(parts[1])
             THEN [gid |-> ZeroGID, err |-> UnknownEntityType]
             ELSE [gid |-> GID(parts[1], ParseID(parts[2]).val),
                   err |-> Nil]

Parse(s) ==
    IF ~HasPrefix(s, Prefix) THEN [gid |-> ZeroGID, err |-> MissingPrefix]
    ELSE LET parts == SplitRemainder(TrimPrefix(s, Prefix))
         IN  IF Len(parts) # 2 THEN [gid |-> ZeroGID, err |-> MalformedBody]
             ELSE IF ~IsValid(parts[1])
             THEN [gid |-> ZeroGID, err |-> UnknownEntityType]
             ELSE IF ParseID(parts[2]).err # Nil
             THEN [gid |-> ZeroGID, err |-> InvalidID]
             ELSE [gid |-> GID(parts[1], ParseID(parts[2]).val),
                   err |-> Nil]

ParseBase64(s) ==
    IF DecodeString(s).err # Nil
    THEN [gid |-> ZeroGID, err |-> InvalidEncoding]
    ELSE Parse(DecodeString(s).bytes)

(***************************************************************************)
(* time.Time and uuid.UUID as the cursor payloads carry them, and their    *)
(* JSON texts.  A time is its calendar fields in its own zone, its         *)
(* nanoseconds and the zone offset in minutes; a UUID is its 16 bytes.     *)
(***************************************************************************)
Time(y, mo, d, h, mi, s, ns, off) ==
    [year |-> y, month |-> mo, day |-> d, hour |-> h, minute |-> mi,
     second |-> s, nsec |-> ns, offset |-> off]

\* time.Time{}: January 1, year 1, 00:00:00 UTC
ZeroTime == Time(1, 1, 1, 0, 0, 0, 0, 0)

\* the number of the day y-mo-d, counted from 1970-01-01
DayNumber(y, mo, d) ==
    LET yy  == IF mo <= 2 THEN y - 1 ELSE y
        era == yy \div 400
        yoe == yy - era * 400
        mp  == IF mo > 2 THEN mo - 3 ELSE mo + 9
        doy == (153 * mp + 2) \div 5 + d - 1
        doe == yoe * 365 + yoe \div 4 - yoe \div 100 + doy
    IN  era * 146097 + doe - 719468

\* the instant of a time: its day, second of the day and nanosecond in UTC
Instant(t) ==
    LET secs == t.hour * 3600 + t.minute * 60 + t.second - t.offset * 60
        day  == DayNumber(t.year, t.month, t.day)
    IN  IF secs < 0 THEN <<day - 1, secs + 86400, t.nsec>>
        ELSE IF secs >= 86400 THEN <<day + 1, secs - 86400, t.nsec>>
        ELSE <<day, secs, t.nsec>>

\* Time.Before
InstantLess(a, b) ==
    LET x == Instant(a)
        y == Instant(b)
    IN  \E i \in 1 .. 3 : x[i] < y[i] /\ \A j \in 1 .. (i - 1) : x[j] = y[j]

\* Time.IsZero: the instant is that of time.Time{}, in whatever zone
IsZero(t) == Instant(t) = Instant(ZeroTime)

\* uuid.Nil
NilUUID == [i \in 1 .. 16 |-> 0]

\* n in decimal, padded with zeros to the given width
RECURSIVE Digits(_, _)
Digits(n, width) ==
    IF width = 0 THEN << >>
    ELSE Digits(n \div 10, width - 1) \o <<Byte("0") + (n % 10)>>

\* the value of a text of decimal digits (at most nine of them)
RECURSIVE DigitsValue(_)
DigitsValue(s) ==
    IF s = << >> THEN 0
    ELSE 10 * DigitsValue(SubSeq(s, 1, Len(s) - 1)) + (s[Len(s)] - Byte("0"))

AllDigits(s) == \A i \in DOMAIN s : IsDigit(s[i])

\* the fraction of a second of RFC3339Nano: nothing for 0, otherwise '.'
\* and the nanoseconds without their trailing zeros
RECURSIVE TrimZeros(_)
TrimZeros(s) ==
    IF s # << >> /\ s[Len(s)] = Byte("0")
    THEN TrimZeros(SubSeq(s, 1, Len(s) - 1))
    ELSE s

Fraction(ns) ==
    IF ns = 0 THEN << >> ELSE Str(<<".">>) \o TrimZeros(Digits(ns, 9))

\* the zone of RFC3339: Z for offset 0, otherwise +hh:mm or -hh:mm
Zone(off) ==
    IF off = 0 THEN Str(<<"Z">>)
    ELSE LET a == IF off < 0 THEN -off ELSE off
         IN  (IF off < 0 THEN Str(<<"-">>) ELSE Str(<<"+">>))
                 \o Digits(a \div 60, 2) \o Str(<<":">>) \o Digits(a % 60, 2)

\* t.AppendFormat(b, time.RFC3339Nano)
FormatRFC3339Nano(t) ==
    Digits(t.year, IF t.year > 9999 THEN 5 ELSE 4) \o Str(<<"-">>)
        \o Digits(t.month, 2) \o Str(<<"-">>) \o Digits(t.day, 2)
        \o Str(<<"T">>) \o Digits(t.hour, 2) \o Str(<<":">>)
        \o Digits(t.minute, 2) \o Str(<<":">>) \o Digits(t.second, 2)
        \o Fraction(t.nsec) \o Zone(t.offset)

Quote(s) == Str(<<"\"">>) \o s \o Str(<<"\"">>)

\* Time.MarshalJSON: the quoted RFC 3339 text; an error for a year outside
\* 0 .. 9999 or a zone hour outside 0 .. 23
TimeMarshalJSON(t) ==
    IF t.year < 0 \/ t.year > 9999
    THEN [bytes |-> << >>, err |-> "year outside of range [0,9999]"]
    ELSE IF t.offset >= 24 * 60 \/ t.offset <= -(24 * 60)
    THEN [bytes |-> << >>,
          err |-> "timezone hour outside of range [0,23]"]
    ELSE [bytes |-> Quote(FormatRFC3339Nano(t)), err |-> Nil]

IsLeap(y) == y % 4 = 0 /\ (y % 100 # 0 \/ y % 400 = 0)

DaysIn(mo, y) ==
    IF mo = 2 THEN (IF IsLeap(y) THEN 29 ELSE 28)
    ELSE IF mo \in {4, 6, 9, 11} THEN 30 ELSE 31

\* the text from position i on
From(s, i) == SubSeq(s, i, Len(s))

\* the digits at the head of a text
RECURSIVE LeadingDigits(_)
LeadingDigits(s) ==
    IF s # << >> /\ IsDigit(s[1])
    THEN <<s[1]>> \o LeadingDigits(From(s, 2))
    ELSE << >>

\* nanoseconds of the digits after the '.': the first nine count
Nanos(ds) ==
    LET nine == SubSeq(ds, 1, IF Len(ds) > 9 THEN 9 ELSE Len(ds))
    IN  DigitsValue(nine \o [i \in 1 .. (9 - Len(nine)) |-> Byte("0")])

\* the zone at the end of an RFC 3339 text: Z, or a sign, two digits of
\* hours up to 23, ':' and two digits of minutes up to 59
ParseZone(z) ==
    IF z = Str(<<"Z">>) THEN [ok |-> TRUE, offset |-> 0]
    ELSE IF /\ Len(z) = 6
            /\ z[1] \in {Byte("+"), Byte("-")}
            /\ AllDigits(SubSeq(z, 2, 3))
            /\ z[4] = Byte(":")
            /\ AllDigits(SubSeq(z, 5, 6))
            /\ DigitsValue(SubSeq(z, 2, 3)) <= 23
            /\ DigitsValue(SubSeq(z, 5, 6)) <= 59
    THEN [ok |-> TRUE,
          offset |-> (IF z[1] = Byte("-") THEN -1 ELSE 1)
                        * (DigitsValue(SubSeq(z, 2, 3)) * 60
                              + DigitsValue(SubSeq(z, 5, 6)))]
    ELSE [ok |-> FALSE, offset |-> 0]

\* parseStrictRFC3339: 2006-01-02T15:04:05[.fraction](Z|+07:00)
ParseRFC3339(s) ==
    LET bad  == [t |-> ZeroTime, err |-> "parsing time"]
        y    == DigitsValue(SubSeq(s, 1, 4))
        mo   == DigitsValue(SubSeq(s, 6, 7))
        d    == DigitsValue(SubSeq(s, 9, 10))
        h    == DigitsValue(SubSeq(s, 12, 13))
        mi   == DigitsValue(SubSeq(s, 15, 16))
        sec  == DigitsValue(SubSeq(s, 18, 19))
        rest == From(s, 20)
        frac == IF Len(rest) >= 2 /\ rest[1] = Byte(".") /\ IsDigit(rest[2])
                THEN LeadingDigits(From(rest, 2))
                ELSE << >>
        zone == IF frac = << >> THEN rest ELSE From(rest, Len(frac) + 2)
    IN  IF Len(s) < 20 THEN bad
        ELSE IF ~(/\ AllDigits(SubSeq(s, 1, 4))
                  /\ s[5] = Byte("-")
                  /\ AllDigits(SubSeq(s, 6, 7))
                  /\ s[8] = Byte("-")
                  /\ AllDigits(SubSeq(s, 9, 10))
                  /\ s[11] = Byte("T")
                  /\ AllDigits(SubSeq(s, 12, 13))
                  /\ s[14] = Byte(":")
                  /\ AllDigits(SubSeq(s, 15, 16))
                  /\ s[17] = Byte(":")
                  /\ AllDigits(SubSeq(s, 18, 19))) THEN bad
        ELSE IF ~(/\ mo \in 1 .. 12
                  /\ d \in 1 .. DaysIn(mo, y)
                  /\ h <= 23
                  /\ mi <= 59
                  /\ sec <= 59) THEN bad
        ELSE IF ~ParseZone(zone).ok THEN bad
        ELSE [t |-> Time(y, mo, d, h, mi, sec, Nanos(frac),
                         ParseZone(zone).offset),
              err |-> Nil]

\* Time.UnmarshalJSON on the raw text of a JSON value: null changes
\* nothing, anything else has to be a quoted RFC 3339 text
TimeUnmarshalJSON(t, data) ==
    IF data = Str(<<"n", "u", "l", "l">>) THEN [t |-> t, err |-> Nil]
    ELSE IF Len(data) < 2 \/ data[1] # Byte("\"")
                \/ data[Len(data)] # Byte("\"")
    THEN [t |-> t, err |-> "input is not a JSON string"]
    ELSE ParseRFC3339(SubSeq(data, 2, Len(data) - 1))

\* uuid: the text of a byte in lower-case hexadecimal
HexDigits ==
    Str(<<"0", "1", "2", "3", "4", "5", "6", "7", "8", "9", "a", "b", "c",
          "d", "e", "f">>)

HexByte(v) == <<HexDigits[(v \div 16) + 1], HexDigits[(v % 16) + 1]>>

RECURSIVE HexBytes(_)
HexBytes(bs) ==
    IF bs = << >> THEN << >> ELSE HexByte(bs[1]) \o HexBytes(From(bs, 2))

\* UUID.MarshalText: xxxxxxxx-xxxx-xxxx-xxxx-xxxxxxxxxxxx
UUIDMarshalText(u) ==
    HexBytes(SubSeq(u, 1, 4)) \o Str(<<"-">>)
        \o HexBytes(SubSeq(u, 5, 6)) \o Str(<<"-">>)
        \o HexBytes(SubSeq(u, 7, 8)) \o Str(<<"-">>)
        \o HexBytes(SubSeq(u, 9, 10)) \o Str(<<"-">>)
        \o HexBytes(SubSeq(u, 11, 16))

\* the value of a hexadecimal digit of either case, -1 for another byte
HexValue(c) ==
    IF IsDigit(c) THEN c - Byte("0")
    ELSE IF Byte("a") <= c /\ c <= Byte("f") THEN c - Byte("a") + 10
    ELSE IF Byte("A") <= c /\ c <= Byte("F") THEN c - Byte("A") + 10
    ELSE -1

\* ASCII lower case
Lower(c) == IF Byte("A") <= c /\ c <= Byte("Z") THEN c + 32 ELSE c

EqualFold(a, b) ==
    Len(a) = Len(b) /\ \A i \in DOMAIN a : Lower(a[i]) = Lower(b[i])

\* where the sixteen bytes start in the 36-character form
UUIDOffsets == <<1, 3, 5, 7, 10, 12, 15, 17, 20, 22, 25, 27, 29, 31, 33, 35>>

\* the 36-character form with its four dashes
ParseDashed(b) ==
    IF \/ b[9] # Byte("-") \/ b[14] # Byte("-")
       \/ b[19] # Byte("-") \/ b[24] # Byte("-")
       \/ \E i \in 1 .. 16 :
             HexValue(b[UUIDOffsets[i]]) < 0
                \/ HexValue(b[UUIDOffsets[i] + 1]) < 0
    THEN [u |-> NilUUID, err |-> "invalid UUID format"]
    ELSE [u |-> [i \in 1 .. 16 |->
                    16 * HexValue(b[UUIDOffsets[i]])
                        + HexValue(b[UUIDOffsets[i] + 1])],
          err |-> Nil]

\* UUID.UnmarshalText (uuid.ParseBytes): the 36-character form, the same
\* after urn:uuid: or between two more characters, or 32 hexadecimal digits
UUIDUnmarshalText(b) ==
    IF Len(b) = 36 THEN ParseDashed(b)
    ELSE IF Len(b) = 45 THEN
        IF EqualFold(SubSeq(b, 1, 9),
                     Str(<<"u", "r", "n", ":", "u", "u", "i", "d", ":">>))
        THEN ParseDashed(From(b, 10))
        ELSE [u |-> NilUUID, err |-> "invalid urn prefix"]
    ELSE IF Len(b) = 38 THEN ParseDashed(SubSeq(b, 2, 37))
    ELSE IF Len(b) = 32 THEN
        IF \E i \in 1 .. 32 : HexValue(b[i]) < 0
        THEN [u |-> NilUUID, err |-> "invalid UUID format"]
        ELSE [u |-> [i \in 1 .. 16 |->
                        16 * HexValue(b[2 * i - 1]) + HexValue(b[2 * i])],
              err |-> Nil]
    ELSE [u |-> NilUUID, err |-> "invalid UUID length"]

(***************************************************************************)
(* encoding/json on a cursor payload struct                                *)
(*     { CreatedAt time.Time `json:"created_at"`; ID uuid.UUID `json:"id"` }*)
(* Texts are JSON without white space, escapes or exponents, and objects   *)
(* whose members are not themselves filled objects or arrays.              *)
(***************************************************************************)
Cursor(createdAt, id) == [CreatedAt |-> createdAt, ID |-> id]

\* var zero T
ZeroCursor == Cursor(ZeroTime, NilUUID)

KeyCreatedAt ==
    Str(<<"c", "r", "e", "a", "t", "e", "d", "_", "a", "t">>)
KeyID == Str(<<"i", "d">>)

\* json.Marshal(v): {"created_at":<time>,"id":"<uuid>"}, or the error of
\* Time.MarshalJSON
Marshal(v) ==
    IF TimeMarshalJSON(v.CreatedAt).err # Nil
    THEN [bytes |-> << >>, err |-> TimeMarshalJSON(v.CreatedAt).err]
    ELSE [bytes |-> Str(<<"{">>) \o Quote(KeyCreatedAt) \o Str(<<":">>)
                      \o TimeMarshalJSON(v.CreatedAt).bytes
                      \o Str(<<",">>) \o Quote(KeyID) \o Str(<<":">>)
                      \o Quote(UUIDMarshalText(v.ID)) \o Str(<<"}">>),
          err |-> Nil]

StartsWith(b, i, lit) ==
    i + Len(lit) - 1 <= Len(b) /\ SubSeq(b, i, i + Len(lit) - 1) = lit

NoScan == [ok |-> FALSE, kind |-> "", raw |-> << >>, next |-> 0]

Scanned(b, i, kind, len) ==
    [ok |-> TRUE, kind |-> kind, raw |-> SubSeq(b, i, i + len - 1),
     next |-> i + len]

\* a string literal at i: up to the next '"', without '\' or control bytes
ScanString(b, i) ==
    IF i > Len(b) \/ b[i] # Byte("\"") THEN NoScan
    ELSE LET closing == { j \in (i + 1) .. Len(b) : b[j] = Byte("\"") }
         IN  IF closing = {} THEN NoScan
             ELSE LET j == CHOOSE k \in closing : \A l \in closing : k <= l
                  IN  IF \E k \in (i + 1) .. (j - 1) :
                            b[k] < 32 \/ b[k] = Byte("backslash")
                      THEN NoScan
                      ELSE Scanned(b, i, "string", j - i + 1)

\* an integer literal at i: '-'? then 0 or a digit 1-9 and more digits
ScanNumber(b, i) ==
    LET neg  == IF i <= Len(b) /\ b[i] = Byte("-") THEN 1 ELSE 0
        ds   == LeadingDigits(From(b, i + neg))
    IN  IF ds = << >> \/ (Len(ds) > 1 /\ ds[1] = Byte("0")) THEN NoScan
        ELSE Scanned(b, i, "number", neg + Len(ds))

\* any value but a filled object or array
ScanScalar(b, i) ==
    IF StartsWith(b, i, Str(<<"n", "u", "l", "l">>))
    THEN Scanned(b, i, "null", 4)
    ELSE IF StartsWith(b, i, Str(<<"t", "r", "u", "e">>))
    THEN Scanned(b, i, "bool", 4)
    ELSE IF StartsWith(b, i, Str(<<"f", "a", "l", "s", "e">>))
    THEN Scanned(b, i, "bool", 5)
    ELSE IF StartsWith(b, i, Str(<<"[", "]">>))
    THEN Scanned(b, i, "array", 2)
    ELSE IF StartsWith(b, i, Str(<<"{", "}">>))
    THEN Scanned(b, i, "object", 2)
    ELSE IF i <= Len(b) /\ b[i] = Byte("\"") THEN ScanString(b, i)
    ELSE ScanNumber(b, i)

\* the members of an object from position i, after '{' or ',', up to '}'
RECURSIVE ScanMembers(_, _, _)
ScanMembers(b, i, members) ==
    LET key == ScanString(b, i)
        val == ScanScalar(b, key.next + 1)
        all == Append(members, [key   |-> SubSeq(key.raw, 2,
                                                 Len(key.raw) - 1),
                                kind  |-> val.kind,
                                raw   |-> val.raw])
    IN  IF ~key.ok THEN [ok |-> FALSE, members |-> << >>, next |-> 0]
        ELSE IF key.next > Len(b) \/ b[key.next] # Byte(":")
        THEN [ok |-> FALSE, members |-> << >>, next |-> 0]
        ELSE IF ~val.ok \/ val.next > Len(b)
        THEN [ok |-> FALSE, members |-> << >>, next |-> 0]
        ELSE IF b[val.next] = Byte(",")
        THEN ScanMembers(b, val.next + 1, all)
        ELSE IF b[val.next] = Byte("}")
        THEN [ok |-> TRUE, members |-> all, next |-> val.next + 1]
        ELSE [ok |-> FALSE, members |-> << >>, next |-> 0]

\* checkValid and the shape of the text: one value and nothing after it
ParseJSON(b) ==
    IF Len(b) > 2 /\ b[1] = Byte("{") /\ b[2] # Byte("}")
    THEN LET o == ScanMembers(b, 2, << >>)
         IN  [ok |-> o.ok /\ o.next = Len(b) + 1, kind |-> "object",
              members |-> o.members]
    ELSE LET s == ScanScalar(b, 1)
         IN  [ok |-> s.ok /\ s.next = Len(b) + 1, kind |-> s.kind,
              members |-> << >>]

\* the struct field a key names: the tag itself, or the tag in other case
FieldOf(key) ==
    IF EqualFold(key, KeyCreatedAt) THEN "CreatedAt"
    ELSE IF EqualFold(key, KeyID) THEN "ID"
    ELSE "none"

\* the members stored into v one after the other; an error of
\* Time.UnmarshalJSON ends the decoding, one about the id is kept for the end
RECURSIVE StoreMembers(_, _, _, _)
StoreMembers(v, members, i, saved) ==
    IF i > Len(members) THEN [v |-> v, err |-> saved]
    ELSE LET m == members[i]
         IN  IF FieldOf(m.key) = "CreatedAt" THEN
                 LET r == TimeUnmarshalJSON(v.CreatedAt, m.raw)
                 IN  IF r.err # Nil
                     THEN [v |-> [v EXCEPT !.CreatedAt = r.t],
                           err |-> r.err]
                     ELSE StoreMembers([v EXCEPT !.CreatedAt = r.t],
                                       members, i + 1, saved)
             ELSE IF FieldOf(m.key) = "ID" THEN
                 IF m.kind = "null"
                 THEN StoreMembers(v, members, i + 1, saved)
                 ELSE IF m.kind = "string" THEN
                     LET r == UUIDUnmarshalText(
                                  SubSeq(m.raw, 2, Len(m.raw) - 1))
                     IN  IF r.err # Nil
                         THEN StoreMembers(v, members, i + 1,
                                  IF saved = Nil THEN r.err ELSE saved)
                         ELSE StoreMembers([v EXCEPT !.ID = r.u],
                                           members, i + 1, saved)
                 ELSE StoreMembers(v, members, i + 1,
                          IF saved = Nil THEN "UnmarshalTypeError"
                          ELSE saved)
             ELSE StoreMembers(v, members, i + 1, saved)

\* json.Unmarshal(b, &v), v being the zero value before
Unmarshal(b) ==
    LET j == ParseJSON(b)
    IN  IF ~j.ok THEN [v |-> ZeroCursor, err |-> "SyntaxError"]
        ELSE IF j.kind = "null" THEN [v |-> ZeroCursor, err |-> Nil]
        ELSE IF j.kind = "object"
        THEN StoreMembers(ZeroCursor, j.members, 1, Nil)
        ELSE [v |-> ZeroCursor, err |-> "UnmarshalTypeError"]

(***************************************************************************)
(* The cursor codec (CursorCodec[T]) and the codecs the handlers use.      *)
(***************************************************************************)
InvalidCursor == "invalid cursor"

\* Validate of tenantCursorCodec, storeCursorCodec
RequiredFields(c) ==
    IF IsZero(c.CreatedAt) \/ c.ID = NilUUID
    THEN "invalid cursor: missing required fields"
    ELSE Nil

\* a codec is its optional Validate
tenantCursorCodec == [Validate |-> Some("RequiredFields")]
bareCursorCodec   == [Validate |-> None]

Encode_Padded(c, v) ==
    IF Marshal(v).err # Nil THEN [token |-> << >>, err |-> Marshal(v).err]
    ELSE [token |-> EncodeRaw(Marshal(v).bytes)
                        \o Padding(Len(Marshal(v).bytes)),
          err |-> Nil]

Encode(c, v) ==
    LET Marshalled(b) ==
            IF b.err # Nil THEN [token |-> << >>, err |-> b.err]
            ELSE [token |-> EncodeRaw(b.bytes), err |-> Nil]
    IN  Marshalled(Marshal(v))

Decode_EmptyDecoded(c, s) ==
    IF DecodeString(s).err # Nil
    THEN [v |-> ZeroCursor, ok |-> FALSE, err |-> InvalidCursor]
    ELSE LET u == Unmarshal(DecodeString(s).bytes)
         IN  IF u.err # Nil
             THEN [v |-> u.v, ok |-> FALSE, err |-> InvalidCursor]
             ELSE IF c.Validate # None /\ RequiredFields(u.v) # Nil
             THEN [v |-> u.v, ok |-> FALSE, err |-> InvalidCursor]
             ELSE [v |-> u.v, ok |-> TRUE, err |-> Nil]

Decode_NoValidate(c, s) ==
    IF s = << >> THEN [v |-> ZeroCursor, ok |-> FALSE, err |-> Nil]
    ELSE IF DecodeString(s).err # Nil
    THEN [v |-> ZeroCursor, ok |-> FALSE, err |-> InvalidCursor]
    ELSE LET u == Unmarshal(DecodeString(s).bytes)
         IN  IF u.err # Nil
             THEN [v |-> u.v, ok |-> FALSE, err |-> InvalidCursor]
             ELSE [v |-> u.v, ok |-> TRUE, err |-> Nil]

\* Decode once json.Unmarshal has returned u, and once DecodeString has
\* returned raw
DecodeUnmarshalled(c, u) ==
    IF u.err # Nil
    THEN [v |-> u.v, ok |-> FALSE, err |-> InvalidCursor]
    ELSE IF c.Validate # None /\ RequiredFields(u.v) # Nil
    THEN [v |-> u.v, ok |-> FALSE, err |-> InvalidCursor]
    ELSE [v |-> u.v, ok |-> TRUE, err |-> Nil]

DecodeRaw(c, raw) ==
    IF raw.err # Nil
    THEN [v |-> ZeroCursor, ok |-> FALSE, err |-> InvalidCursor]
    ELSE DecodeUnmarshalled(c, Unmarshal(raw.bytes))

Decode(c, s) ==
    IF s = << >> THEN [v |-> ZeroCursor, ok |-> FALSE, err |-> Nil]
    ELSE DecodeRaw(c, DecodeString(s))

(***************************************************************************)
(* The wall clock.  It is outside the program: it may step forward, and    *)
(* (NTP adjustment, manual reset) backward.  It moves a millisecond at a   *)
(* time; a jump is several steps with no reading in between.               *)
(***************************************************************************)
TickForward ==
    /\ AddMillis(clock, 1) \in ClockValues
    /\ clock' = AddMillis(clock, 1)
    /\ UNCHANGED <<g, newErr, tagArg, mu, regressed, pc, now, wall,
                   started, returned, lastRet>>
    /\ UNCHANGED seen
    /\ UNCHANGED <<gidVars, curVars, pageVars, pairVars, colVars, parseVars>>

TickBackward ==
    /\ AddMillis(clock, -1) \in ClockValues
    /\ clock' = AddMillis(clock, -1)
    /\ regressed' = TRUE
    /\ UNCHANGED <<g, newErr, tagArg, mu, pc, now, wall,
                   started, returned, lastRet>>
    /\ UNCHANGED seen
    /\ UNCHANGED <<gidVars, curVars, pageVars, pairVars, colVars, parseVars>>

(***************************************************************************)
(* Construction: the process calls NewGenerator once.                      *)
(***************************************************************************)
NoTag == -1

Construct(tag) ==
    /\ tagArg = NoTag
    /\ tagArg' = tag
    /\ g' = NewGenerator(tag).gen
    /\ newErr' = NewGenerator(tag).err
    /\ UNCHANGED <<mu, clock, regressed, pc, now, wall, started, returned,
                   lastRet>>
    /\ UNCHANGED seen
    /\ UNCHANGED <<gidVars, curVars, pageVars, pairVars, colVars, parseVars>>

(***************************************************************************)
(* Generate (snowflake.go 50-73), one action per step of a caller.         *)
(***************************************************************************)
\* a goroutine invokes g.Generate() and arrives at g.mu.Lock()
Call(p) ==
    /\ pc[p] = "idle"
    /\ g # None
    /\ started < MaxCalls
    /\ started' = started + 1
    /\ pc' = [pc EXCEPT ![p] = "lock"]
    /\ UNCHANGED <<g, newErr, tagArg, mu, clock, regressed, now, wall,
                   returned, lastRet>>
    /\ UNCHANGED seen
    /\ UNCHANGED <<gidVars, curVars, pageVars, pairVars, colVars, parseVars>>

\* sync.Mutex: Lock() returns only when no one holds the mutex
MutexFree_Always == TRUE

MutexFree == mu = NoHolder

\* g.mu.Lock()   (line 51)
Lock(p) ==
    /\ pc[p] = "lock"
    /\ MutexFree
    /\ mu' = p
    /\ pc' = [pc EXCEPT ![p] = "read"]
    /\ UNCHANGED <<g, newErr, tagArg, clock, regressed, now, wall, started,
                   returned, lastRet>>
    /\ UNCHANGED seen
    /\ UNCHANGED <<gidVars, curVars, pageVars, pairVars, colVars, parseVars>>

\* now := time.Now().UnixMilli() - epoch   (line 54)
ReadClock(p) ==
    /\ pc[p] = "read"
    /\ wall' = [wall EXCEPT ![p] = clock]
    /\ now' = [now EXCEPT ![p] = SubMillis(clock, epoch)]
    /\ pc' = [pc EXCEPT ![p] = "cmp"]
    /\ UNCHANGED <<g, newErr, tagArg, mu, clock, regressed, started,
                   returned, lastRet>>
    /\ UNCHANGED seen
    /\ UNCHANGED <<gidVars, curVars, pageVars, pairVars, colVars, parseVars>>

\* the condition of the branch: now == g.lastTime   (line 56)
SameMillisecond_OrEarlier(nw, lastTime) == nw <= lastTime

SameMillisecond(nw, lastTime) == nw = lastTime

\* if now == g.lastTime { sequence++ & mask; if 0 -> wait } else { 0 }
\* (lines 56-58, 64-66)
Compare(p) ==
    /\ pc[p] = "cmp"
    /\ IF SameMillisecond(now[p], g[1].lastTime)
       THEN /\ g' = [g EXCEPT ![1].sequence = NextSequence(g[1].sequence)]
            /\ pc' = [pc EXCEPT ![p] = IF NextSequence(g[1].sequence) = 0
                                       THEN "spin" ELSE "store"]
       ELSE /\ g' = [g EXCEPT ![1].sequence = 0]
            /\ pc' = [pc EXCEPT ![p] = "store"]
    /\ seen' = [seen EXCEPT ![p] = Some([now |-> now[p],
                                         lastTime |-> g[1].lastTime])]
    /\ UNCHANGED <<newErr, tagArg, mu, clock, regressed, now, wall, started,
                   returned, lastRet>>
    /\ UNCHANGED <<gidVars, curVars, pageVars, pairVars, colVars, parseVars>>

\* the loop condition of the busy-wait: for now <= g.lastTime  (line 60)
MustWait_Less(nw, lastTime) == nw < lastTime

MustWait(nw, lastTime) == nw <= lastTime

\* the loop body: now = time.Now().UnixMilli() - epoch   (line 61)
SpinRead(p) ==
    /\ pc[p] = "spin"
    /\ MustWait(now[p], g[1].lastTime)
    /\ wall' = [wall EXCEPT ![p] = clock]
    /\ now' = [now EXCEPT ![p] = SubMillis(clock, epoch)]
    /\ UNCHANGED <<g, newErr, tagArg, mu, clock, regressed, pc, started,
                   returned, lastRet>>
    /\ UNCHANGED seen
    /\ UNCHANGED <<gidVars, curVars, pageVars, pairVars, colVars, parseVars>>

\* the loop condition fails: leave the busy-wait
SpinExit(p) ==
    /\ pc[p] = "spin"
    /\ ~MustWait(now[p], g[1].lastTime)
    /\ pc' = [pc EXCEPT ![p] = "store"]
    /\ UNCHANGED <<g, newErr, tagArg, mu, clock, regressed, now, wall,
                   started, returned, lastRet>>
    /\ UNCHANGED seen
    /\ UNCHANGED <<gidVars, curVars, pageVars, pairVars, colVars, parseVars>>

\* g.lastTime = now   (line 68)
Store(p) ==
    /\ pc[p] = "store"
    /\ g' = [g EXCEPT ![1].lastTime = now[p]]
    /\ pc' = [pc EXCEPT ![p] = "ret"]
    /\ UNCHANGED <<newErr, tagArg, mu, clock, regressed, now, wall, started,
                   returned, lastRet>>
    /\ UNCHANGED seen
    /\ UNCHANGED <<gidVars, curVars, pageVars, pairVars, colVars, parseVars>>

\* defer g.mu.Unlock()   (line 52): the holder of the mutex after the return
HolderAfterReturn_NoUnlock(p) == p

HolderAfterReturn(p) == NoHolder

\* return ... (lines 70-72), then the deferred g.mu.Unlock()
Return(p) ==
    /\ pc[p] = "ret"
    /\ LET id == Pack(now[p], g[1].machineID, g[1].sequence)
       IN  /\ returned' = Append(returned, Run(id, 1))
           /\ lastRet' = Some([id |-> id, wall |-> wall[p], now |-> now[p],
                               sequence |-> g[1].sequence,
                               seen |-> seen[p][1]])
    /\ seen' = [seen EXCEPT ![p] = None]
    /\ mu' = HolderAfterReturn(p)
    /\ pc' = [pc EXCEPT ![p] = "idle"]
    /\ now' = [now EXCEPT ![p] = 0]            \* the local goes out of scope
    /\ wall' = [wall EXCEPT ![p] = epoch]
    /\ UNCHANGED <<g, newErr, tagArg, clock, regressed, started>>
    /\ UNCHANGED <<gidVars, curVars, pageVars, pairVars, colVars, parseVars>>

(***************************************************************************)
(* Initial states: the process before NewGenerator, or a generator that    *)
(* has used up the sequence numbers of the current millisecond.            *)
(***************************************************************************)
GIDIdle ==
    /\ gidIn = None
    /\ text = << >>
    /\ parsed = None
    /\ op = << >>

CursorIdle ==
    /\ codec = None
    /\ curIn = None
    /\ token = << >>
    /\ encoded = None
    /\ decoded = None

PageIdle ==
    /\ rows = {}
    /\ request = None
    /\ written = << >>
    /\ pages = << >>
    /\ lpc = "idle"
    /\ churn = [steady |-> rows, used |-> rows, count |-> 0]

PairIdle ==
    /\ gens = << >>
    /\ clocks = << >>
    /\ waiting = << >>
    /\ issued = << >>

ColumnIdle ==
    /\ minted = None
    /\ column = None
    /\ loaded = None

ParseIdle ==
    /\ pageCall = None
    /\ pageOut = None

Init ==
    /\ clock \in ClockValues
    /\ regressed = FALSE
    /\ mu = NoHolder
    /\ pc = [p \in Callers |-> "idle"]
    /\ now = [p \in Callers |-> 0]
    /\ wall = [p \in Callers |-> epoch]
    /\ started = 0
    /\ seen = [p \in Callers |-> None]
    /\ newErr = Nil
    /\ \/ /\ g = None
          /\ tagArg = NoTag
          /\ returned = << >>
          /\ lastRet = None
       \/ \E tag \in WarmTags, s \in WarmSequences :
            LET c == SubMillis(clock, epoch)
            IN  /\ tagArg = tag
                /\ g = Some(WarmGenerator(tag, c, s))
                /\ returned = WarmReturned(tag, c, s)
                /\ lastRet = Some([id |-> Pack(c, tag, s), wall |-> clock,
                                   now |-> c, sequence |-> s,
                                   seen |-> [now |-> c, lastTime |-> c]])
    /\ GIDIdle
    /\ CursorIdle
    /\ PageIdle
    /\ PairIdle
    /\ ColumnIdle
    /\ ParseIdle

Next ==
    \/ TickForward
    \/ TickBackward
    \/ \E tag \in MachineTags : Construct(tag)
    \/ \E p \in Callers : Call(p)
    \/ \E p \in Callers : Lock(p)
    \/ \E p \in Callers : ReadClock(p)
    \/ \E p \in Callers : Compare(p)
    \/ \E p \in Callers : SpinRead(p)
    \/ \E p \in Callers : SpinExit(p)
    \/ \E p \in Callers : Store(p)
    \/ \E p \in Callers : Return(p)

Spec == Init /\ [][Next]_vars

TypeOK ==
    /\ g = None \/ g[1].sequence \in 0 .. MaxUint16
    /\ mu \in {NoHolder} \cup Callers
    /\ started \in 0 .. MaxCalls

(***************************************************************************)
(* Fairness for the termination of Generate: a caller that can take its    *)
(* next step inside Generate takes it, and sync.Mutex hands the lock to    *)
(* every waiter (its starvation mode).  Nothing is assumed of the clock    *)
(* or of callers deciding to call.                                         *)
(***************************************************************************)
\* the next step of the caller holding the mutex (one of them is enabled)
Proceed(p) ==
    \/ ReadClock(p)
    \/ Compare(p)
    \/ SpinRead(p)
    \/ SpinExit(p)
    \/ Store(p)
    \/ Return(p)

Fairness ==
    \A p \in Callers : SF_vars(Lock(p)) /\ WF_vars(Proceed(p))

LiveSpec == Init /\ [][Next]_vars /\ Fairness

(***************************************************************************)
(* Properties of the generator.                                            *)
(***************************************************************************)
\* two runs of the history have no id in common
Disjoint(r1, r2) == LastId(r1) < r2.first \/ LastId(r2) < r1.first

\* the id returned last, and the one returned just before it
LastReturned == LastId(returned[Len(returned)])

PrevReturned ==
    IF returned[Len(returned)].count > 1 THEN LastReturned - 1
    ELSE LastId(returned[Len(returned) - 1])

InCritical(p) == pc[p] \in {"read", "cmp", "spin", "store", "ret"}

\* C1: while the wall clock has never moved backward, the ids returned by
\* the callers of one generator, whatever their interleaving, are pairwise
\* distinct (n returns, n distinct values).
C1_Distinct ==
    ~regressed =>
        \A i, j \in DOMAIN returned :
            i < j => Disjoint(returned[i], returned[j])

\* the generator wrapped its sequence, waited, and returned in a later
\* millisecond, with the clock never having moved backward
C1_Witness ==
    /\ ~regressed
    /\ Len(returned) > 2
    /\ ExtractSequence(LastReturned) = 1
    /\ ExtractSequence(PrevReturned) = 0
    /\ ExtractSequence(LastId(returned[Len(returned) - 2])) = maxSequence

\* C2: while the wall clock has never moved backward, the ids are strictly
\* increasing in the order in which the calls ran the critical section
\* (the order of return).
C2_Increasing ==
    ~regressed =>
        \A i \in 1 .. Len(returned) - 1 :
            LastId(returned[i]) < returned[i + 1].first

C2_Witness ==
    /\ ~regressed
    /\ Len(returned) > 1
    /\ ExtractSequence(LastReturned) = 0
    /\ ExtractSequence(PrevReturned) = maxSequence

\* C3: a value returned by Generate() is never returned again, whatever the
\* clock does (backward moves included).
C3_NeverReused ==
    \A i, j \in DOMAIN returned : i < j => Disjoint(returned[i], returned[j])

\* C4: at most one caller at a time is between g.mu.Lock() returning and
\* the deferred Unlock, and that caller holds the mutex.
C4_MutualExclusion ==
    /\ \A p, q \in Callers : InCritical(p) /\ InCritical(q) => p = q
    /\ \A p \in Callers : InCritical(p) => mu = p

\* one caller is in the middle of its read-modify-write while another one
\* is blocked in Lock()
C4_Witness ==
    \E p, q \in Callers : pc[p] = "store" /\ pc[q] = "lock"

\* a caller is in the busy-wait and its latest clock reading is not yet
\* greater than g.lastTime
Stalled(p) == pc[p] = "spin" /\ now[p] <= g[1].lastTime

\* C5: Generate() has no failing outcome and, provided the clock readings
\* of the busy-wait eventually exceed g.lastTime (no caller stays stalled
\* forever), every call that was started eventually returns.
C5_EveryCallReturns ==
    (\A q \in Callers : []<>(~Stalled(q)))
        => (\A p \in Callers : (pc[p] # "idle") ~> (pc[p] = "idle"))

\* a call went through the busy-wait and returned once the clock advanced
C5_Witness ==
    /\ Len(returned) > 1
    /\ ExtractSequence(PrevReturned) = maxSequence
    /\ lastRet[1].sequence = 0
    /\ lastRet[1].now > ShiftRight(PrevReturned, timestampShift)
    /\ \A p \in Callers : pc[p] = "idle"

\* C6: NewGenerator fails exactly for a machine tag outside [0, 1023]
\* (1024 fails, 0 and 1023 succeed); on failure the generator returned is
\* nil, on success it carries the tag.
C6_ConstructionBound ==
    tagArg # NoTag =>
        /\ (newErr # Nil) <=> (tagArg < 0 \/ tagArg > 1023)
        /\ newErr # Nil => g = None
        /\ newErr = Nil => g # None /\ g[1].machineID = tagArg
        /\ tagArg = 1024 => newErr # Nil
        /\ tagArg \in {0, 1023} => newErr = Nil

C6_Witness == tagArg = 1024 /\ newErr # Nil /\ g = None

\* C7: the id a call returns is now * 2^22 + tag * 2^12 + sequence (the
\* three fields side by side), and the extractors give back the configured
\* tag, the sequence of the call and the wall clock millisecond it read.
C7_PackedFields ==
    lastRet # None =>
        LET r == lastRet[1]
        IN  /\ r.id = r.now * 4194304 + tagArg * 4096 + r.sequence
            /\ ExtractMachineID(r.id) = tagArg
            /\ ExtractSequence(r.id) = r.sequence
            /\ ExtractTime(r.id) = r.wall

\* an id with all three fields non-zero, from the largest tag
C7_Witness ==
    /\ lastRet # None
    /\ lastRet[1].now > 0
    /\ lastRet[1].sequence > 0
    /\ tagArg = 1023
    /\ started > 0
    /\ \A p \in Callers : pc[p] = "idle"

(***************************************************************************)
(* The GID codec: a GID value, or a text received from a client, is taken  *)
(* in hand and the codec's operations are applied to it.                   *)
(***************************************************************************)
MaxSmallID == 11     \* ids 0 .. MaxSmallID besides the boundary values

\* 9876543210 (TestGIDBase64Roundtrip), 2^32, 2^63, 2^64 - 2
IDValues ==
    { U64(n) : n \in 0 .. MaxSmallID }
        \cup { U64(12345), U64(123456789), MulAdd10(U64(987654321), 0).val,
               MaxUint32, <<0, 1, 0, 0>>, <<32768, 0, 0, 0>>,
               <<65535, 65535, 65535, 65534>>, MaxUint64 }

\* the allow-listed types, one that is not, and the empty type of GID{}
TypeValues == ValidEntityTypes \cup { Str(<<"I", "n", "v", "a", "l", "i", "d">>), << >> }

GIDValues == { GID(t, id) : t \in TypeValues, id \in IDValues }

\* texts a client may send: head, first segment, and either nothing more
\* or a '/' and a second segment
InputHeads ==
    { Prefix, << >>,
      Str(<<"g", "i", "d", ":", "/", "/", "s", "h", "o", "p", "i", "f", "y",
            "/">>) }

InputTypes ==
    { EntityProduct, EntityStore, << >>,
      Str(<<"I", "n", "v", "a", "l", "i", "d">>),
      Str(<<"p", "r", "o", "d", "u", "c", "t">>) }

InputIDs ==
    { << >>, Str(<<"0">>), Str(<<"1", "2", "3">>), Str(<<"0", "0", "7">>),
      Str(<<"7">>), Str(<<"0", "0">>), Str(<<"0", "1", "0">>),
      Str(<<"a", "b", "c">>), Str(<<"1", "/", "2">>), Str(<<"/">>),
      Str(<<"-", "1">>), Str(<<"+", "7">>), Str(<<"1", " ">>),
      FormatUint(MaxUint64),
      Str(<<"1", "8", "4", "4", "6", "7", "4", "4", "0", "7", "3", "7", "0",
            "9", "5", "5", "1", "6", "1", "6">>) }

InputTails == { << >> } \cup { <<Slash>> \o id : id \in InputIDs }

CanonicalLike == { h \o t \o r : h \in InputHeads, t \in InputTypes,
                                 r \in InputTails }

\* the same texts in compact form, and two tokens that are not base64
InputTexts ==
    CanonicalLike \cup { EncodeRaw(t) : t \in CanonicalLike }
        \cup { Str(<<"!", "!", "!">>), Str(<<"Z", "2", "l", "k", "=">>) }

GeneratorIdle ==
    /\ g = None
    /\ newErr = Nil
    /\ tagArg = NoTag
    /\ mu = NoHolder
    /\ clock = epoch
    /\ regressed = FALSE
    /\ pc = [p \in Callers |-> "idle"]
    /\ now = [p \in Callers |-> 0]
    /\ wall = [p \in Callers |-> epoch]
    /\ started = 0
    /\ returned = << >>
    /\ lastRet = None
    /\ seen = [p \in Callers |-> None]

GIDInit ==
    /\ GeneratorIdle
    /\ CursorIdle
    /\ PageIdle
    /\ PairIdle
    /\ ColumnIdle
    /\ ParseIdle
    /\ parsed = None
    /\ op = << >>
    /\ \/ /\ gidIn \in { Some(v) : v \in GIDValues }
          /\ text = << >>
       \/ /\ gidIn = None
          /\ text \in InputTexts

\* text := g.String()
DoString ==
    /\ gidIn # None
    /\ op = << >>
    /\ text' = String(gidIn[1])
    /\ op' = <<"String">>
    /\ UNCHANGED <<gidIn, parsed>>
    /\ UNCHANGED <<genVars, curVars, pageVars, pairVars, colVars, parseVars>>

\* text := g.Base64()
DoBase64 ==
    /\ gidIn # None
    /\ op = << >>
    /\ text' = Base64(gidIn[1])
    /\ op' = <<"Base64">>
    /\ UNCHANGED <<gidIn, parsed>>
    /\ UNCHANGED <<genVars, curVars, pageVars, pairVars, colVars, parseVars>>

\* a text is in hand: one received, or one the codec produced
TextInHand == parsed = None /\ (gidIn = None \/ op # << >>)

\* Parse(text)
DoParse ==
    /\ TextInHand
    /\ parsed' = Some(Parse(text))
    /\ op' = Append(op, "Parse")
    /\ UNCHANGED <<gidIn, text>>
    /\ UNCHANGED <<genVars, curVars, pageVars, pairVars, colVars, parseVars>>

\* ParseBase64(text)
DoParseBase64 ==
    /\ TextInHand
    /\ parsed' = Some(ParseBase64(text))
    /\ op' = Append(op, "ParseBase64")
    /\ UNCHANGED <<gidIn, text>>
    /\ UNCHANGED <<genVars, curVars, pageVars, pairVars, colVars, parseVars>>

GIDNext == DoString \/ DoBase64 \/ DoParse \/ DoParseBase64

GIDSpec == GIDInit /\ [][GIDNext]_vars

(***************************************************************************)
(* Properties of the GID codec.                                            *)
(***************************************************************************)
\* C8: a GID with an allow-listed type and any uint64 id (0 and 2^64 - 1
\* included) comes back unchanged and without error from Parse(g.String()).
C8_RoundTrip ==
    (op = <<"String", "Parse">> /\ gidIn[1].Type \in ValidEntityTypes)
        => parsed = Some([gid |-> gidIn[1], err |-> Nil])

C8_Witness ==
    /\ op = <<"String", "Parse">>
    /\ gidIn = Some(GID(EntityProductVariant, MaxUint64))
    /\ parsed = Some([gid |-> GID(EntityProductVariant, MaxUint64),
                      err |-> Nil])

\* C9: g.Base64() is the canonical text in URL-safe base64 without padding
\* (alphabet characters only, ceil(4n/3) of them for n bytes, decoding to
\* g.String()), and for an allow-listed type ParseBase64(g.Base64())
\* returns g without error.
C9_CompactRoundTrip ==
    /\ (op # << >> /\ op[1] = "Base64") =>
         LET canonical == String(gidIn[1])
         IN  /\ \A i \in DOMAIN text : IsAlphabet(text[i])
             /\ \A i \in DOMAIN text :
                    text[i] \notin {Byte("="), Byte("+"), Byte("/")}
             /\ Len(text) = (4 * Len(canonical) + 2) \div 3
             /\ DecodeString(text) = [bytes |-> canonical, err |-> Nil]
    /\ (op = <<"Base64", "ParseBase64">>
            /\ gidIn[1].Type \in ValidEntityTypes)
         => parsed = Some([gid |-> gidIn[1], err |-> Nil])

\* the case of TestGIDBase64Roundtrip
C9_Witness ==
    /\ op = <<"Base64", "ParseBase64">>
    /\ gidIn[1].Type = EntityProductVariant
    /\ FormatUint(gidIn[1].ID) =
          Str(<<"9", "8", "7", "6", "5", "4", "3", "2", "1", "0">>)
    /\ parsed[1].err = Nil
    /\ parsed[1].gid = gidIn[1]

ProductSlash == EntityProduct \o <<Slash>>

Significant(s) ==
    LET nonzero == { i \in DOMAIN s : s[i] # Byte("0") }
    IN  IF nonzero = {} THEN << >>
        ELSE SubSeq(s, CHOOSE i \in nonzero : \A j \in nonzero : i <= j,
                    Len(s))

\* a before b in the order of texts of one length
LexLess(a, b) ==
    \E i \in DOMAIN a :
        a[i] < b[i] /\ \A j \in 1 .. (i - 1) : a[j] = b[j]

\* the text is a base-10 unsigned integer of at most 2^64 - 1
Decimal64(s) ==
    /\ s # << >>
    /\ \A i \in DOMAIN s : IsDigit(s[i])
    /\ LET d == Significant(s)
           m == FormatUint(MaxUint64)
       IN  Len(d) < Len(m) \/ (Len(d) = Len(m) /\ ~LexLess(m, d))

\* C11: Parse names one cause per defect and looks for them in a fixed
\* order: MissingPrefix when the text does not start with
\* gid://mystoreos/; otherwise, the remainder being cut at its first '/'
\* into a first and a second segment, UnknownEntityType when the first
\* segment is not allow-listed; otherwise InvalidID when the second segment
\* is not a base-10 unsigned 64-bit integer; otherwise no error.  The three
\* causes are different values.
C11_ErrorOrder ==
    /\ MissingPrefix # UnknownEntityType
    /\ MissingPrefix # InvalidID
    /\ UnknownEntityType # InvalidID
    /\ op = <<"Parse">> =>
        /\ ~HasPrefix(text, Prefix) => parsed[1].err = MissingPrefix
        /\ (HasPrefix(text, Prefix)
               /\ IndexSlash(TrimPrefix(text, Prefix)) # 0) =>
             LET remainder == TrimPrefix(text, Prefix)
                 cut       == IndexSlash(remainder)
                 first     == SubSeq(remainder, 1, cut - 1)
                 second    == SubSeq(remainder, cut + 1, Len(remainder))
             IN  /\ first \notin ValidEntityTypes
                       => parsed[1].err = UnknownEntityType
                 /\ (first \in ValidEntityTypes /\ ~Decimal64(second))
                       => parsed[1].err = InvalidID
                 /\ (first \in ValidEntityTypes /\ Decimal64(second))
                       => parsed[1].err = Nil

\* two defects at once: an unknown type and an id that is not a number
C11_Witness ==
    /\ op = <<"Parse">>
    /\ text = Prefix \o Str(<<"I", "n", "v", "a", "l", "i", "d", "/",
                               "a", "b", "c">>)
    /\ parsed[1].err = UnknownEntityType

\* the entity types TestEntityTypeIsValid expects to be valid
validTypes ==
    {EntityProduct, EntityProductVariant, EntityStore, EntityTenant,
     EntityUser, EntityRole, EntityPermission, EntityCustomDomain}

\* C12: there are eight allow-listed entity types; whenever Parse or
\* ParseBase64 has returned without error the GID it returned has one of
\* them as its Type, and IsValid is false for every other tag.
C12_AllowList ==
    /\ Cardinality(validTypes) = 8
    /\ (parsed # None /\ parsed[1].err = Nil)
          => parsed[1].gid.Type \in validTypes
    /\ \A t \in InputTypes \cup TypeValues : IsValid(t) <=> t \in validTypes
    /\ (gidIn # None /\ parsed # None /\ gidIn[1].Type \notin validTypes)
          => parsed[1].err # Nil

\* a compact text received from a client and accepted
C12_Witness ==
    /\ op = <<"ParseBase64">>
    /\ gidIn = None
    /\ parsed[1].err = Nil
    /\ parsed[1].gid.Type = EntityStore
    /\ ~IsValid(Str(<<"p", "r", "o", "d", "u", "c", "t">>))

(***************************************************************************)
(* The cursor codec at work: a payload is encoded, or a token is received, *)
(* and the token is decoded.                                               *)
(***************************************************************************)
\* creation times: the zero time, whole seconds, microseconds (the
\* precision of timestamptz), a nanosecond, zones east and west of UTC, and
\* a year json cannot write
CreatedAtValues ==
    { ZeroTime,
      Time(2024, 1, 1, 0, 0, 0, 0, 0),
      Time(2024, 2, 29, 23, 59, 59, 999999000, 0),
      Time(2025, 6, 15, 12, 30, 45, 123456000, 330),
      Time(2023, 12, 31, 16, 0, 0, 1, -480),
      Time(10000, 1, 1, 0, 0, 0, 0, 0) }

UUIDValues ==
    { NilUUID,
      [i \in 1 .. 16 |-> IF i = 16 THEN 1 ELSE 0],
      <<161, 178, 195, 212, 229, 246, 71, 137, 138, 188, 222, 240, 18, 52,
        86, 120>>,
      [i \in 1 .. 16 |-> 255] }

CursorValues == { Cursor(t, u) : t \in CreatedAtValues, u \in UUIDValues }

Codecs == {tenantCursorCodec, bareCursorCodec}

\* JSON texts put together from their parts
JSONMember(key, raw) == Quote(key) \o Str(<<":">>) \o raw

RECURSIVE JSONJoin(_)
JSONJoin(ms) ==
    IF ms = << >> THEN << >>
    ELSE IF Len(ms) = 1 THEN ms[1]
    ELSE ms[1] \o Str(<<",">>) \o JSONJoin(From(ms, 2))

JSONObject(ms) == Str(<<"{">>) \o JSONJoin(ms) \o Str(<<"}">>)

SomeTime == Quote(Str(<<"2", "0", "2", "4", "-", "0", "1", "-", "0", "1",
                        "T", "0", "0", ":", "0", "0", ":", "0", "0", "Z">>))

SomeID ==
    Quote(Str(<<"0", "0", "0", "0", "0", "0", "0", "0", "-", "0", "0", "0",
                "0", "-", "0", "0", "0", "0", "-", "0", "0", "0", "0", "-",
                "0", "0", "0", "0", "0", "0", "0", "0", "0", "0", "0",
                "1">>))

DocValid ==
    JSONObject(<<JSONMember(KeyCreatedAt, SomeTime),
                 JSONMember(KeyID, SomeID)>>)

JSONNull == Str(<<"n", "u", "l", "l">>)

\* texts json.Unmarshal refuses for the payload struct: not JSON, cut
\* short, followed by a byte, not an object, a created_at that is not an
\* RFC 3339 time, an id that is not the text of a UUID
MalformedDocs ==
    { Str(<<"n", "o", "t", " ", "j", "s", "o", "n">>),
      SubSeq(DocValid, 1, Len(DocValid) - 1),
      DocValid \o Str(<<"x">>),
      Str(<<"1", "2", "3">>),
      Str(<<"\"", "x", "\"">>),
      Str(<<"[", "]">>),
      Str(<<"t", "r", "u", "e">>),
      JSONObject(<<JSONMember(KeyCreatedAt,
                              Quote(Str(<<"y", "e", "s", "t", "e", "r",
                                          "d", "a", "y">>))),
                   JSONMember(KeyID, SomeID)>>),
      JSONObject(<<JSONMember(KeyCreatedAt,
                              Quote(Str(<<"2", "0", "2", "3", "-", "0",
                                          "2", "-", "2", "9", "T", "0",
                                          "0", ":", "0", "0", ":", "0",
                                          "0", "Z">>))),
                   JSONMember(KeyID, SomeID)>>),
      JSONObject(<<JSONMember(KeyCreatedAt,
                              Str(<<"1", "7", "0", "4", "0", "6", "7",
                                    "2", "0", "0">>)),
                   JSONMember(KeyID, SomeID)>>),
      JSONObject(<<JSONMember(KeyCreatedAt, SomeTime),
                   JSONMember(KeyID, Quote(Str(<<"x", "y", "z">>)))>>),
      JSONObject(<<JSONMember(KeyCreatedAt, SomeTime),
                   JSONMember(KeyID, Str(<<"4", "2">>))>>),
      JSONObject(<<JSONMember(KeyID, Quote(Str(<<"x", "y", "z">>))),
                   JSONMember(KeyID, SomeID),
                   JSONMember(KeyCreatedAt, SomeTime)>>) }

\* texts json.Unmarshal takes and that leave a field at its zero value
RejectedDocs ==
    { JSONNull,
      JSONObject(<< >>),
      JSONObject(<<JSONMember(KeyCreatedAt, SomeTime)>>),
      JSONObject(<<JSONMember(KeyID, SomeID)>>),
      JSONObject(<<JSONMember(KeyCreatedAt, JSONNull),
                   JSONMember(KeyID, JSONNull)>>),
      JSONObject(<<JSONMember(KeyCreatedAt,
                              Quote(FormatRFC3339Nano(ZeroTime))),
                   JSONMember(KeyID, SomeID)>>),
      JSONObject(<<JSONMember(KeyCreatedAt,
                              Quote(FormatRFC3339Nano(
                                  Time(0, 12, 31, 23, 0, 0, 0, -60)))),
                   JSONMember(KeyID, SomeID)>>),
      JSONObject(<<JSONMember(KeyCreatedAt, SomeTime),
                   JSONMember(KeyID, Quote(UUIDMarshalText(NilUUID)))>>) }

\* texts with both fields: as Encode writes them, with the keys in another
\* case and order and the id in capitals, with a member more, with a member
\* given twice
AcceptedDocs ==
    { DocValid,
      JSONObject(<<JSONMember(Str(<<"I", "D">>),
                       Quote(Str(<<"A", "1", "B", "2", "C", "3", "D", "4",
                                   "-", "E", "5", "F", "6", "-", "4", "7",
                                   "8", "9", "-", "8", "A", "B", "C", "-",
                                   "D", "E", "F", "0", "1", "2", "3", "4",
                                   "5", "6", "7", "8">>))),
                   JSONMember(Str(<<"C", "r", "e", "a", "t", "e", "d", "_",
                                    "A", "t">>),
                       Quote(FormatRFC3339Nano(
                           Time(2025, 6, 15, 12, 30, 45, 123456000,
                                330))))>>),
      JSONObject(<<JSONMember(KeyCreatedAt, SomeTime),
                   JSONMember(KeyID, SomeID),
                   JSONMember(Str(<<"e", "x", "t", "r", "a">>),
                              Str(<<"t", "r", "u", "e">>))>>),
      JSONObject(<<JSONMember(KeyID,
                       Quote(UUIDMarshalText([i \in 1 .. 16 |-> 255]))),
                   JSONMember(KeyID, SomeID),
                   JSONMember(KeyCreatedAt, SomeTime)>>) }

\* tokens that are not unpadded URL-safe base64: a byte outside the
\* alphabet, padding, the standard alphabet, a length of 4k + 1
BadBase64Tokens ==
    { Str(<<"!", "!", "!">>),
      EncodeRaw(JSONObject(<< >>)) \o Str(<<"=">>),
      Str(<<"a", "+", "/", "b">>),
      SubSeq(EncodeRaw(DocValid), 1, 5) }

MalformedTokens == { EncodeRaw(d) : d \in MalformedDocs }
RejectedTokens  == { EncodeRaw(d) : d \in RejectedDocs }
AcceptedTokens  == { EncodeRaw(d) : d \in AcceptedDocs }

\* what a client may send as its cursor
InputTokens ==
    {<< >>} \cup BadBase64Tokens \cup MalformedTokens \cup RejectedTokens
        \cup AcceptedTokens

CursorInit ==
    /\ GeneratorIdle
    /\ GIDIdle
    /\ PageIdle
    /\ PairIdle
    /\ ColumnIdle
    /\ ParseIdle
    /\ codec \in { Some(c) : c \in Codecs }
    /\ encoded = None
    /\ decoded = None
    /\ \/ /\ curIn \in { Some(v) : v \in CursorValues }
          /\ token = << >>
       \/ /\ curIn = None
          /\ token \in InputTokens

\* token, err := codec.Encode(payload)
DoEncode ==
    /\ curIn # None
    /\ encoded = None
    /\ encoded' = Some(Encode(codec[1], curIn[1]))
    /\ token' = Encode(codec[1], curIn[1]).token
    /\ UNCHANGED <<codec, curIn, decoded>>
    /\ UNCHANGED <<genVars, gidVars, pageVars, pairVars, colVars, parseVars>>

\* a token is in hand: one received, or one Encode returned without error
TokenInHand ==
    \/ curIn = None
    \/ encoded # None /\ encoded[1].err = Nil

\* v, ok, err := codec.Decode(token)
DoDecode ==
    /\ TokenInHand
    /\ decoded = None
    /\ decoded' = Some(Decode(codec[1], token))
    /\ UNCHANGED <<codec, curIn, token, encoded>>
    /\ UNCHANGED <<genVars, gidVars, pageVars, pairVars, colVars, parseVars>>

CursorNext == DoEncode \/ DoDecode

CursorSpec == CursorInit /\ [][CursorNext]_vars

C14_EmptyOrInvalid ==
    /\ InvalidCursor # Nil
    /\ (curIn = None /\ decoded # None) =>
        LET d == decoded[1]
        IN  /\ token = << >>
                  => d = [v |-> ZeroCursor, ok |-> FALSE, err |-> Nil]
            /\ token \in BadBase64Tokens \cup MalformedTokens
                  => ~d.ok /\ d.err = InvalidCursor
            /\ (token \in RejectedTokens /\ codec[1].Validate # None)
                  => ~d.ok /\ d.err = InvalidCursor
            /\ token # << >>
                  => \/ d.ok /\ d.err = Nil
                     \/ ~d.ok /\ d.err = InvalidCursor

\* the empty token, with a validator that refuses the zero payload
C14_Witness ==
    /\ curIn = None
    /\ token = << >>
    /\ codec = Some(tenantCursorCodec)
    /\ RequiredFields(ZeroCursor) # Nil
    /\ decoded = Some([v |-> ZeroCursor, ok |-> FALSE, err |-> Nil])

\* C15: with a validator configured, Decode returns found = true only
\* without error and with a payload whose createdAt is not the zero time
\* and whose id is not the nil UUID.
C15_FoundIsValid ==
    (decoded # None /\ codec[1].Validate # None /\ decoded[1].ok) =>
        /\ decoded[1].err = Nil
        /\ ~IsZero(decoded[1].v.CreatedAt)
        /\ decoded[1].v.ID # NilUUID

\* a token a client sent, with the keys in another case, is accepted
C15_Witness ==
    /\ curIn = None
    /\ codec = Some(tenantCursorCodec)
    /\ decoded # None
    /\ decoded[1].ok
    /\ decoded[1].v.CreatedAt
          = Time(2025, 6, 15, 12, 30, 45, 123456000, 330)
    /\ decoded[1].v.ID[1] = 161

(***************************************************************************)
(* Pagination parameters (ParsePageParams).                                *)
(***************************************************************************)
\* 1 << 63
Cutoff63 == <<32768, 0, 0, 0>>

\* strconv.Atoi: an optional sign and decimal digits, within int64; the
\* result is its sign and magnitude
Atoi(s) ==
    LET signed == s # << >> /\ s[1] \in {Byte("+"), Byte("-")}
        neg    == s # << >> /\ s[1] = Byte("-")
        Signed(un) ==
            IF un.err # Nil
            THEN [neg |-> FALSE, mag |-> U64(0), err |-> un.err]
            ELSE IF (~neg /\ ~U64Less(un.val, Cutoff63))
                        \/ (neg /\ U64Less(Cutoff63, un.val))
            THEN [neg |-> FALSE, mag |-> U64(0), err |-> "ErrRange"]
            ELSE [neg |-> neg, mag |-> un.val, err |-> Nil]
    IN  Signed(ParseUint(IF signed THEN From(s, 2) ELSE s, 64))

PageParams(limit, cursor) == [Limit |-> limit, Cursor |-> cursor]

\* the limit taken as given, whatever maxLimit is
ParsePageParams_NoClamp(limitParam, cursorParam, defaultValue, maxValue) ==
    LET Limited(a) ==
            IF a.err # Nil \/ a.neg \/ a.mag = U64(0)
            THEN [params |-> PageParams(0, << >>), err |-> "invalid limit"]
            ELSE [params |-> PageParams(a.mag[3] * LimbBase + a.mag[4],
                                        cursorParam),
                  err |-> Nil]
    IN  IF limitParam # << >> THEN Limited(Atoi(limitParam))
        ELSE [params |-> PageParams(defaultValue, cursorParam), err |-> Nil]

\* ParsePageParams(r, defaultLimit, maxLimit), the query of r having the
\* given limit and cursor parameters ("" when absent)
ParsePageParams(limitParam, cursorParam, defaultValue, maxValue) ==
    LET Limited(a) ==
            IF a.err # Nil \/ a.neg \/ a.mag = U64(0)
            THEN [params |-> PageParams(0, << >>), err |-> "invalid limit"]
            ELSE IF U64Less(U64(maxValue), a.mag)
            THEN [params |-> PageParams(maxValue, cursorParam), err |-> Nil]
            ELSE [params |-> PageParams(a.mag[3] * LimbBase + a.mag[4],
                                        cursorParam),
                  err |-> Nil]
    IN  IF limitParam # << >> THEN Limited(Atoi(limitParam))
        ELSE [params |-> PageParams(defaultValue, cursorParam), err |-> Nil]

(***************************************************************************)
(* The paginated queries: rows are (created_at, id) with id the primary    *)
(* key; the other columns play no part in the paging.                      *)
(***************************************************************************)
Row(createdAt, id) == [created_at |-> createdAt, id |-> id]

\* uuid < uuid in PostgreSQL: the sixteen bytes compared from the first
UUIDLess(a, b) ==
    \E i \in 1 .. 16 : a[i] < b[i] /\ \A j \in 1 .. (i - 1) : a[j] = b[j]

\* (created_at, id) < ($3::timestamptz, $4::uuid)
KeysetBefore_OrEqual(r, createdAt, id) ==
    \/ InstantLess(r.created_at, createdAt)
    \/ /\ Instant(r.created_at) = Instant(createdAt)
       /\ (UUIDLess(r.id, id) \/ r.id = id)

KeysetBefore(r, createdAt, id) ==
    \/ InstantLess(r.created_at, createdAt)
    \/ /\ Instant(r.created_at) = Instant(createdAt)
       /\ UUIDLess(r.id, id)

\* ORDER BY created_at DESC, id DESC
RECURSIVE OrderDesc(_)
OrderDesc(S) ==
    IF S = {} THEN << >>
    ELSE LET top == CHOOSE r \in S :
                       \A o \in S \ {r} :
                           KeysetBefore(o, r.created_at, r.id)
         IN  <<top>> \o OrderDesc(S \ {top})

\* LIMIT n
Limit(q, n) == SubSeq(q, 1, IF Len(q) < n THEN Len(q) ELSE n)

\* the cursor not applied
GetPaginated_NoCursor(coll, hasCursor, cursorCreatedAt, cursorID, limit) ==
    Limit(OrderDesc(coll), limit)

\* a keyset on created_at alone
GetPaginated_TimeOnly(coll, hasCursor, cursorCreatedAt, cursorID, limit) ==
    Limit(OrderDesc({ r \in coll :
                        ~hasCursor
                            \/ InstantLess(r.created_at, cursorCreatedAt) }),
          limit)

\* GetTenantsByUserIDPaginated, GetStoresByTenantIDPaginated,
\* GetProductsByStorePaginated over the rows the other conditions select
GetPaginated(coll, hasCursor, cursorCreatedAt, cursorID, limit) ==
    Limit(OrderDesc({ r \in coll :
                        ~hasCursor
                            \/ KeysetBefore(r, cursorCreatedAt, cursorID) }),
          limit)

(***************************************************************************)
(* The list handlers.  What a handler writes for a request is a sequence   *)
(* of responses: an error, or a page.                                      *)
(***************************************************************************)
defaultTenantLimit == 50
maxTenantLimit     == 100
defaultLimit       == 50
maxLimit           == 100

ErrorResponse(status) ==
    [status |-> status, error |-> TRUE, data |-> << >>, limit |-> 0,
     has_more |-> FALSE, next_cursor |-> << >>]

PageResponse(data, limit, hasMore, nextCursor) ==
    [status |-> 200, error |-> FALSE, data |-> data, limit |-> limit,
     has_more |-> hasMore, next_cursor |-> nextCursor]

\* decodeTenantCursor, decodeStoreCursor, cursorInfo: what is returned
\* for the result d of Decode
CursorFields(d) ==
    IF d.err # Nil
    THEN [createdAt |-> ZeroTime, id |-> NilUUID, ok |-> FALSE, err |-> d.err]
    ELSE IF ~d.ok
    THEN [createdAt |-> ZeroTime, id |-> NilUUID, ok |-> FALSE, err |-> Nil]
    ELSE [createdAt |-> d.v.CreatedAt, id |-> d.v.ID, ok |-> TRUE,
          err |-> Nil]

decodeTenantCursor(cursor) == CursorFields(Decode(tenantCursorCodec, cursor))

\* hasMore := len(rows) > limit
HasMore_AtLeast(n, limit) == n >= limit

HasMore(n, limit) == n > limit

\* if hasMore && len(rows) > 0
WantsCursor_AnyRows(hasMore, n) == n > 0

WantsCursor(hasMore, n) == hasMore /\ n > 0

\* the page built from the fetched rows: trimmed to limit, with the cursor
\* of the last row kept when there are more
BuildPage(fetched, limit) ==
    LET Written(kept, hasMore, enc) ==
            IF enc.err # Nil THEN ErrorResponse(500)
            ELSE PageResponse(kept, limit, hasMore, enc.token)
        Trimmed(kept, hasMore) ==
            Written(kept, hasMore,
                    IF WantsCursor(hasMore, Len(kept))
                    THEN Encode(tenantCursorCodec,
                                Cursor(kept[Len(kept)].created_at,
                                       kept[Len(kept)].id))
                    ELSE [token |-> << >>, err |-> Nil])
        Fetched(hasMore) ==
            Trimmed(IF hasMore THEN SubSeq(fetched, 1, limit) ELSE fetched,
                    hasMore)
    IN  Fetched(HasMore(Len(fetched), limit))

\* the query and the page, the cursor and the limit being known
QueryPage(coll, cur, limit) ==
    BuildPage(GetPaginated(coll, cur.ok, cur.createdAt, cur.id, limit + 1),
              limit)

\* handlerTenantsList and handlerTenantStoresList from the decoding of the
\* cursor on, and from the parsing of the parameters on
ListAfterCursor(coll, cur, limit) ==
    IF cur.err # Nil THEN <<ErrorResponse(400)>>
    ELSE <<QueryPage(coll, cur, limit)>>

ListAfterParams(coll, pp) ==
    IF pp.err # Nil THEN <<ErrorResponse(400)>>
    ELSE ListAfterCursor(coll, decodeTenantCursor(pp.params.Cursor),
                         pp.params.Limit)

\* handlerTenantsList
HandlerTenantsList(coll, req) ==
    IF ~req.user THEN <<ErrorResponse(401)>>
    ELSE ListAfterParams(coll,
                         ParsePageParams(req.limit, req.cursor,
                                         defaultTenantLimit, maxTenantLimit))

\* handlerListProducts from the decoding of the cursor on; a failure to
\* build the cursor is answered 503
ProductsPage(page) == IF page.error THEN ErrorResponse(503) ELSE page

ProductsAfterCursor(coll, req, cur, limit) ==
    IF cur.err # Nil THEN <<ErrorResponse(400)>>
    ELSE IF UUIDUnmarshalText(req.store).err # Nil
    THEN <<ErrorResponse(403)>>
    ELSE IF ~req.user THEN <<ErrorResponse(401)>>
    ELSE <<ProductsPage(QueryPage(coll, cur, limit))>>

\* handlerListProducts: what follows the error of ParsePageParams, which
\* does not end the handler
ListProductsFrom(coll, req, params) ==
    ProductsAfterCursor(coll, req, decodeTenantCursor(params.Cursor),
                        params.Limit)

ProductsAfterParams(coll, req, pp) ==
    (IF pp.err # Nil THEN <<ErrorResponse(400)>> ELSE << >>)
        \o ListProductsFrom(coll, req, pp.params)

HandlerListProducts(coll, req) ==
    ProductsAfterParams(coll, req,
                        ParsePageParams(req.limit, req.cursor, defaultLimit,
                                        maxLimit))

defaultStoreLimit == 50
maxStoreLimit     == 100

\* handlerTenantStoresList, the tenant being the path parameter and the
\* user, when there is one, an active member of it
HandlerTenantStoresList(coll, req) ==
    IF ~req.user THEN <<ErrorResponse(401)>>
    ELSE IF UUIDUnmarshalText(req.store).err # Nil
    THEN <<ErrorResponse(400)>>
    ELSE ListAfterParams(coll,
                         ParsePageParams(req.limit, req.cursor,
                                         defaultStoreLimit, maxStoreLimit))

\* the mux: the handler the route of the request names
ServeHTTP(coll, req) ==
    IF req.handler = "handlerTenantsList" THEN HandlerTenantsList(coll, req)
    ELSE IF req.handler = "handlerTenantStoresList"
    THEN HandlerTenantStoresList(coll, req)
    ELSE HandlerListProducts(coll, req)

(***************************************************************************)
(* A client walking one list: it sends a request, and while the page it    *)
(* receives says has_more it asks again with the page's next_cursor.  The  *)
(* collection stays as it is during the walk; database failures are left   *)
(* out.                                                                    *)
(***************************************************************************)
MaxRows == 5

\* rows inserted or deleted while a walk is under way
MaxChurn == 2

\* created_at of the rows: now() at insert, microsecond resolution; in the
\* first shape rows inserted together share their time
CreatedAtOf(shape, k) ==
    IF shape = "ties"
    THEN IF k = 1 THEN Time(2023, 12, 31, 23, 59, 59, 999999000, 0)
         ELSE Time(2024, 1, 1, 0, 0, 0, (k \div 2) * 1000, 0)
    ELSE Time(2024, 1, 1, 5, 30, 0, k * 1000, 330)

\* id of the rows: gen_random_uuid(), in no relation to the insert order
FirstBytes == <<156, 31, 227, 74, 119, 2, 181, 200>>

IDOf(k) ==
    [i \in 1 .. 16 |->
        IF i = 1 THEN FirstBytes[k]
        ELSE IF i = 7 THEN 64 + k
        ELSE IF i = 9 THEN 128 + i
        ELSE (17 * i + k) % 256]

Collections ==
    { { Row(CreatedAtOf(shape, k), IDOf(k)) : k \in 1 .. n } :
        shape \in {"ties", "apart"}, n \in 0 .. MaxRows }

LimitParams ==
    { << >>, Str(<<"1">>), Str(<<"2">>), Str(<<"3">>), Str(<<"+", "2">>),
      Str(<<"0">>), Str(<<"-", "1">>), Str(<<"a", "b", "c">>),
      Str(<<"1", "0", "1">>),
      Str(<<"9", "9", "9", "9", "9", "9", "9", "9", "9", "9", "9", "9", "9",
            "9", "9", "9", "9", "9", "9", "9">>) }

ForeignID == [i \in 1 .. 16 |-> IF i = 16 THEN 1 ELSE 0]

\* cursors a client may start from: none, one that is no token, one whose
\* payload is rejected, and one of a row that is not in the collection
StartCursors ==
    { << >>, Str(<<"!", "!", "!">>),
      Encode(bareCursorCodec,
             Cursor(Time(2024, 1, 1, 0, 0, 0, 0, 0), NilUUID)).token,
      Encode(bareCursorCodec,
             Cursor(Time(2024, 1, 1, 0, 0, 0, 1000, 0), ForeignID)).token }

StoreParams == { UUIDMarshalText(ForeignID), Str(<<"n", "o", "p", "e">>) }

Requests ==
    [handler : {"handlerTenantsList"}, user : BOOLEAN, limit : LimitParams,
     cursor : StartCursors, store : {<< >>}]
      \cup [handler : {"handlerListProducts"}, user : BOOLEAN,
            limit : LimitParams, cursor : StartCursors, store : StoreParams]

ListInit ==
    /\ GeneratorIdle
    /\ GIDIdle
    /\ CursorIdle
    /\ PairIdle
    /\ ColumnIdle
    /\ ParseIdle
    /\ rows \in Collections
    /\ request = None
    /\ written = << >>
    /\ pages = << >>
    /\ lpc = "idle"
    /\ churn = [steady |-> rows, used |-> rows, count |-> 0]

\* the client sends the first request of a walk
Start(req) ==
    /\ lpc = "idle"
    /\ request' = Some(req)
    /\ lpc' = "sent"
    /\ churn' = [steady |-> rows, used |-> rows, count |-> 0]
    /\ UNCHANGED <<rows, written, pages>>
    /\ UNCHANGED <<genVars, gidVars, curVars, pairVars, colVars, parseVars>>

\* the server handles the request
Serve ==
    /\ lpc = "sent"
    /\ written' = ServeHTTP(rows, request[1])
    /\ lpc' = "answered"
    /\ UNCHANGED <<rows, request, pages, churn>>
    /\ UNCHANGED <<genVars, gidVars, curVars, pairVars, colVars, parseVars>>

\* what the client receives: the status of the first write stands
Received == written[1]

\* the page says there is more: the client asks for the next one
Follow ==
    /\ lpc = "answered"
    /\ ~Received.error
    /\ Received.has_more
    /\ Len(pages) <= MaxRows + MaxChurn
    /\ pages' = Append(pages, [req |-> request[1], resp |-> Received])
    /\ request' = Some([request[1] EXCEPT !.cursor = Received.next_cursor])
    /\ lpc' = "sent"
    /\ UNCHANGED <<rows, written, churn>>
    /\ UNCHANGED <<genVars, gidVars, curVars, pairVars, colVars, parseVars>>

\* the page says there is no more: the walk is over
Finish ==
    /\ lpc = "answered"
    /\ ~Received.error
    /\ ~Received.has_more
    /\ pages' = Append(pages, [req |-> request[1], resp |-> Received])
    /\ lpc' = "done"
    /\ UNCHANGED <<rows, request, written, churn>>
    /\ UNCHANGED <<genVars, gidVars, curVars, pairVars, colVars, parseVars>>

\* the request was refused: the walk is given up
GiveUp ==
    /\ lpc = "answered"
    /\ Received.error
    /\ lpc' = "failed"
    /\ UNCHANGED <<rows, request, written, pages, churn>>
    /\ UNCHANGED <<genVars, gidVars, curVars, pairVars, colVars, parseVars>>

ListNext ==
    \/ \E req \in Requests : Start(req)
    \/ Serve
    \/ Follow
    \/ Finish
    \/ GiveUp

ListSpec == ListInit /\ [][ListNext]_vars

(***************************************************************************)
(* Properties of the walk.                                                 *)
(***************************************************************************)
\* the rows of the pages received so far, in the order received
RECURSIVE RowsOf(_)
RowsOf(ps) ==
    IF ps = << >> THEN << >> ELSE ps[1].resp.data \o RowsOf(Tail(ps))

\* the walk began without a cursor
FromTheTop == pages # << >> /\ pages[1].req.cursor = << >>

\* row a comes after row b in descending (created_at, id) order
ComesAfter(a, b) ==
    \/ InstantLess(a.created_at, b.created_at)
    \/ /\ ~InstantLess(b.created_at, a.created_at)
       /\ UUIDLess(a.id, b.id)

\* C16: over a fixed collection with pairwise distinct ids, a walk from an
\* empty cursor returns rows in strictly descending (createdAt, id) order, so
\* none twice, and when has_more is false every row has been returned.
C16_EveryRowOnce ==
    FromTheTop =>
        LET got == RowsOf(pages)
        IN  /\ \A i, j \in 1 .. Len(got) :
                   i < j => ComesAfter(got[j], got[i])
            /\ lpc = "done" =>
                   /\ { got[i] : i \in 1 .. Len(got) } = rows
                   /\ Len(got) = Cardinality(rows)

\* a finished walk of three pages over all the rows, two of them tied
C16_Witness ==
    /\ lpc = "done"
    /\ FromTheTop
    /\ Len(pages) = 3
    /\ Cardinality(rows) = MaxRows
    /\ \E a, b \in rows :
           a # b /\ Instant(a.created_at) = Instant(b.created_at)

\* C17: a walk over N rows with page size L >= 1 has max(1, ceil(N/L))
\* pages; every page but the last has L rows and has_more true, the last has
\* the remaining rows and has_more false, so no empty page trails a full one.
C17_PageCount ==
    (lpc = "done" /\ FromTheTop /\ pages[1].resp.limit >= 1) =>
        LET N == Cardinality(rows)
            L == pages[1].resp.limit
            P == IF N = 0 THEN 1 ELSE (N + L - 1) \div L
        IN  /\ Len(pages) = P
            /\ \A i \in 1 .. (P - 1) :
                   /\ Len(pages[i].resp.data) = L
                   /\ pages[i].resp.has_more
            /\ Len(pages[P].resp.data) = N - L * (P - 1)
            /\ ~pages[P].resp.has_more

\* N a multiple of L: four rows in two full pages
C17_Witness ==
    /\ lpc = "done"
    /\ FromTheTop
    /\ Cardinality(rows) = 4
    /\ Len(pages) = 2
    /\ Len(pages[2].resp.data) = 2

\* C18: a list response whose has_more is false has an empty next_cursor.
C18_NoCursorAtEnd ==
    /\ \A i \in DOMAIN written :
           (~written[i].error /\ ~written[i].has_more)
               => written[i].next_cursor = << >>
    /\ \A i \in DOMAIN pages :
           ~pages[i].resp.has_more => pages[i].resp.next_cursor = << >>

\* the last page of the products list, with rows in it
C18_Witness ==
    /\ lpc = "answered"
    /\ request[1].handler = "handlerListProducts"
    /\ ~written[1].error
    /\ ~written[1].has_more
    /\ written[1].data # << >>
    /\ pages # << >>

(***************************************************************************)
(* Properties of Generate at the edges of a millisecond.                   *)
(***************************************************************************)
\* the call compared equal and came out with sequence 0: it wrapped
Wrapped(s, sequence) == s.now = s.lastTime /\ sequence = 0

\* the call read a clock value smaller than g.lastTime
ReadEarlier(s) == s.now < s.lastTime

\* C19: a call whose increment wraps the sequence to 0 leaves the wait only
\* with a clock reading strictly greater than the exhausted lastTime, and
\* the id it returns carries that reading with sequence 0, so it is not the
\* sequence-0 id of the exhausted millisecond.
C19_WaitsOutTheMillisecond ==
    /\ \A p \in Callers :
           (/\ pc[p] \in {"store", "ret"}
            /\ seen[p] # None
            /\ Wrapped(seen[p][1], g[1].sequence))
               => /\ now[p] > seen[p][1].lastTime
                  /\ now[p] = SubMillis(wall[p], epoch)
    /\ (lastRet # None /\ Wrapped(lastRet[1].seen, lastRet[1].sequence)) =>
           LET r == lastRet[1]
           IN  /\ r.now > r.seen.lastTime
               /\ r.now = SubMillis(r.wall, epoch)
               /\ ShiftRight(r.id, timestampShift) = r.now
               /\ BitAnd(r.id, maxSequence) = 0
               /\ r.id # Pack(r.seen.lastTime, g[1].machineID, 0)

\* a call that wrapped has returned, one millisecond later
C19_Witness ==
    /\ lastRet # None
    /\ Wrapped(lastRet[1].seen, lastRet[1].sequence)
    /\ lastRet[1].now = lastRet[1].seen.lastTime + 1
    /\ Len(returned) > 1

\* C20: a call that reads a clock value smaller than lastTime does not wait
\* and is not refused: it sets sequence to 0 and lastTime to the value read,
\* and returns an id whose timestamp is that value, smaller than the
\* timestamp of an id the generator returned before.
C20_BackwardProceeds ==
    /\ \A p \in Callers :
           (seen[p] # None /\ ReadEarlier(seen[p][1])) =>
               /\ pc[p] \in {"store", "ret"}
               /\ now[p] = seen[p][1].now
               /\ g[1].sequence = 0
               /\ pc[p] = "ret" => g[1].lastTime = now[p]
    /\ (lastRet # None /\ ReadEarlier(lastRet[1].seen)) =>
           LET r == lastRet[1]
           IN  /\ r.sequence = 0
               /\ r.now = r.seen.now
               /\ ShiftRight(r.id, timestampShift) = r.now
               /\ \E i \in 1 .. (Len(returned) - 1) :
                      /\ ShiftRight(returned[i].first, timestampShift)
                             = r.seen.lastTime
                      /\ ShiftRight(r.id, timestampShift)
                             < ShiftRight(returned[i].first, timestampShift)

\* a call that read the clock after it stepped back has returned
C20_Witness ==
    /\ lastRet # None
    /\ ReadEarlier(lastRet[1].seen)
    /\ regressed
    /\ returned[Len(returned)].first = lastRet[1].id

(***************************************************************************)
(* Properties of a generator from its construction on.                     *)
(***************************************************************************)
\* the history holds one return, of a generator NewGenerator just built
FirstReturn == Len(returned) = 1 /\ returned[1].count = 1

\* C21: the first Generate() call on a freshly constructed generator returns
\* an id whose sequence field is 0, whatever the clock reads.
C21_FirstSequenceZero ==
    FirstReturn => ExtractSequence(returned[1].first) = 0

(***************************************************************************)
(* Two generator instances, each on its own host with its own wall clock   *)
(* and its own mutex, so that the calls of one instance follow one         *)
(* another.  A call is one step, or two when it has to wait.               *)
(***************************************************************************)
MaxPairCalls == 2     \* Generate() returns of the two instances together

Instances == {1, 2}

\* the machine tags the two instances are constructed with
PairTags == { <<0, 1>>, <<maxMachineID, 0>>, <<1, maxMachineID>> }

\* the number of calls that have returned since the initial state
Returns ==
    LET Count(i) == Cardinality({ k \in DOMAIN issued[i] :
                                    issued[i][k].count = 1 })
    IN  Count(1) + Count(2)

PairInit ==
    /\ GeneratorIdle
    /\ GIDIdle
    /\ CursorIdle
    /\ PageIdle
    /\ ColumnIdle
    /\ ParseIdle
    /\ clocks \in [Instances -> ClockValues]
    /\ waiting = [i \in Instances |-> None]
    /\ \E tags \in PairTags, warm \in [Instances -> BOOLEAN] :
         /\ gens = [i \in Instances |->
                      IF warm[i]
                      THEN WarmGenerator(tags[i], SubMillis(clocks[i], epoch),
                                         maxSequence)
                      ELSE NewGenerator(tags[i]).gen[1]]
         /\ issued = [i \in Instances |->
                        IF warm[i]
                        THEN WarmReturned(tags[i],
                                          SubMillis(clocks[i], epoch),
                                          maxSequence)
                        ELSE << >>]

\* the clock of one host steps forward or backward
PairTick(i, d) ==
    /\ AddMillis(clocks[i], d) \in ClockValues
    /\ clocks' = [clocks EXCEPT ![i] = AddMillis(clocks[i], d)]
    /\ UNCHANGED <<gens, waiting, issued>>
    /\ UNCHANGED <<genVars, gidVars, curVars, pageVars, colVars, parseVars>>

\* g.lastTime = now; return ...   (lines 68-72)
PairReturn(i, nw, sequence) ==
    /\ gens' = [gens EXCEPT ![i].lastTime = nw, ![i].sequence = sequence]
    /\ issued' = [issued EXCEPT
                    ![i] = Append(@, Run(Pack(nw, gens[i].machineID,
                                              sequence), 1))]
    /\ waiting' = [waiting EXCEPT ![i] = None]

\* Generate() of instance i up to its return, or up to the busy-wait
PairGenerate(i) ==
    /\ waiting[i] = None
    /\ Returns < MaxPairCalls
    /\ LET nw == SubMillis(clocks[i], epoch)
       IN  IF SameMillisecond(nw, gens[i].lastTime)
           THEN IF NextSequence(gens[i].sequence) = 0
                THEN /\ gens' = [gens EXCEPT ![i].sequence = 0]
                     /\ waiting' = [waiting EXCEPT ![i] = Some(nw)]
                     /\ UNCHANGED issued
                ELSE PairReturn(i, nw, NextSequence(gens[i].sequence))
           ELSE PairReturn(i, nw, 0)
    /\ UNCHANGED clocks
    /\ UNCHANGED <<genVars, gidVars, curVars, pageVars, colVars, parseVars>>

\* one round of the busy-wait of instance i (lines 60-62), and the return
\* when the loop ends
PairWait(i) ==
    /\ waiting[i] # None
    /\ IF MustWait(waiting[i][1], gens[i].lastTime)
       THEN /\ waiting' = [waiting EXCEPT
                             ![i] = Some(SubMillis(clocks[i], epoch))]
            /\ UNCHANGED <<gens, issued>>
       ELSE PairReturn(i, waiting[i][1], gens[i].sequence)
    /\ UNCHANGED clocks
    /\ UNCHANGED <<genVars, gidVars, curVars, pageVars, colVars, parseVars>>

PairNext ==
    \/ \E i \in Instances, d \in {-1, 1} : PairTick(i, d)
    \/ \E i \in Instances : PairGenerate(i)
    \/ \E i \in Instances : PairWait(i)

PairSpec == PairInit /\ [][PairNext]_vars

\* C22: two generator instances constructed with different machine tags
\* never return the same value, whatever their clocks and the order of
\* their calls.
C22_InstancesDisjoint ==
    gens # << >> =>
        \A a \in DOMAIN issued[1], b \in DOMAIN issued[2] :
            Disjoint(issued[1][a], issued[2][b])

\* both instances have returned an id with the same timestamp and sequence
C22_Witness ==
    /\ gens # << >>
    /\ \E a \in DOMAIN issued[1], b \in DOMAIN issued[2] :
           /\ issued[1][a].count = 1
           /\ issued[2][b].count = 1
           /\ ShiftRight(issued[1][a].first, timestampShift)
                  = ShiftRight(issued[2][b].first, timestampShift)
           /\ ExtractSequence(issued[1][a].first)
                  = ExtractSequence(issued[2][b].first)

\* no call has touched the generator since the last return
Untouched == \A p \in Callers : pc[p] \in {"idle", "lock", "read", "cmp"}

\* C23: in every state of a Generator sequence is within 0 .. 4095 and
\* machineID is the value given to NewGenerator; once Generate() has
\* returned, lastTime is the timestamp field and sequence the sequence field
\* of the id just returned.
C23_GeneratorInvariant ==
    g # None =>
        /\ g[1].sequence \in 0 .. maxSequence
        /\ g[1].machineID = tagArg
        /\ (lastRet # None /\ Untouched) =>
               /\ g[1].lastTime = ShiftRight(lastRet[1].id, timestampShift)
               /\ g[1].sequence = ExtractSequence(lastRet[1].id)
               /\ g[1].machineID = ExtractMachineID(lastRet[1].id)

\* a call of this behaviour has returned with sequence 0 and another call
\* is about to compare
C23_Witness ==
    /\ Len(returned) > 1
    /\ lastRet # None
    /\ \E p \in Callers : pc[p] = "cmp"
    /\ g[1].sequence = 0
    /\ g[1].lastTime > 0
    /\ g[1].machineID = maxMachineID

(***************************************************************************)
(* The id at full width, and the gid column.  A uint64 is four 16-bit      *)
(* limbs, the most significant first; an int64 is a sign and a magnitude.  *)
(* handlerCreateStore stores int64(id) in the BIGINT column gid, and the   *)
(* response builders read it back as uint64(p.Gid.Int64).                  *)
(***************************************************************************)
\* u << k on 64 bits: bits shifted out at the top are lost
ShiftLeft64(u, k) ==
    LET q == k \div 16
        r == k % 16
        Limbs(v) == [i \in 1 .. 4 |-> IF i + q <= 4 THEN v[i + q] ELSE 0]
        Bits(v) ==
            [i \in 1 .. 4 |->
                ((v[i] * (2 ^ r)) % LimbBase)
                    + (IF i < 4 THEN v[i + 1] \div (2 ^ (16 - r)) ELSE 0)]
    IN  Bits(Limbs(u))

\* u >> k on 64 bits
ShiftRight64(u, k) ==
    LET q == k \div 16
        r == k % 16
        Limbs(v) == [i \in 1 .. 4 |-> IF i - q >= 1 THEN v[i - q] ELSE 0]
        Bits(v) ==
            [i \in 1 .. 4 |->
                (v[i] \div (2 ^ r))
                    + (IF i > 1 THEN (v[i - 1] % (2 ^ r)) * (2 ^ (16 - r))
                       ELSE 0)]
    IN  Bits(Limbs(u))

BitOr64(a, b) == [i \in 1 .. 4 |-> BitOr(a[i], b[i])]

BitAnd64(a, b) == [i \in 1 .. 4 |-> BitAnd(a[i], b[i])]

\* the return expression of Generate (lines 70-72), nw being uint64(now)
Pack64_WideSequence(nw, machineID, sequence) ==
    BitOr64(BitOr64(ShiftLeft64(nw, timestampShift + 1),
                    ShiftLeft64(U64(machineID), machineIDShift)),
            U64(sequence))

Pack64(nw, machineID, sequence) ==
    BitOr64(BitOr64(ShiftLeft64(nw, timestampShift),
                    ShiftLeft64(U64(machineID), machineIDShift)),
            U64(sequence))

\* 2^64 - u, for u # 0: the complement of every limb, plus one
Negate64(u) ==
    LET c == [i \in 1 .. 4 |-> (LimbBase - 1) - u[i]]
        Carry(i) == \A j \in (i + 1) .. 4 : c[j] = LimbBase - 1
    IN  [i \in 1 .. 4 |-> IF Carry(i) THEN (c[i] + 1) % LimbBase ELSE c[i]]

\* int64(u): the same 64 bits read as a signed number
Int64(u) ==
    IF U64Less(u, Cutoff63) THEN [neg |-> FALSE, mag |-> u]
    ELSE [neg |-> TRUE, mag |-> Negate64(u)]

\* uint64(i): the same 64 bits read as an unsigned number
Uint64(i) == IF i.neg THEN Negate64(i.mag) ELSE i.mag

\* now = 2^41 - 1, the largest the timestamp field holds, and 2^40, 2^41
MaxTimestamp == <<0, 511, LimbBase - 1, LimbBase - 1>>

NowValues ==
    { U64(0), U64(1), U64(2 ^ 22), <<0, 1, 0, 0>>, <<0, 256, 0, 0>>,
      <<0, 341, 21845, 21845>>, MaxTimestamp, <<0, 512, 0, 0>> }

ColumnInit ==
    /\ GeneratorIdle
    /\ GIDIdle
    /\ CursorIdle
    /\ PageIdle
    /\ PairIdle
    /\ ColumnIdle
    /\ ParseIdle

\* Generate() returns an id, built from a clock reading, the tag of the
\* generator and its sequence
Mint(nw, machineID, sequence) ==
    /\ minted = None
    /\ minted' = Some([now |-> nw, machineID |-> machineID,
                       sequence |-> sequence,
                       id |-> Pack64(nw, machineID, sequence)])
    /\ UNCHANGED <<column, loaded>>
    /\ UNCHANGED <<genVars, gidVars, curVars, pageVars, pairVars, parseVars>>

\* Gid: sql.NullInt64{Int64: int64(storeGID), Valid: true}
StoreGid ==
    /\ minted # None
    /\ column = None
    /\ column' = Some(Int64(minted[1].id))
    /\ UNCHANGED <<minted, loaded>>
    /\ UNCHANGED <<genVars, gidVars, curVars, pageVars, pairVars, parseVars>>

\* gid.ProductGID(uint64(p.Gid.Int64))
LoadGid ==
    /\ column # None
    /\ loaded = None
    /\ loaded' = Some(Uint64(column[1]))
    /\ UNCHANGED <<minted, column>>
    /\ UNCHANGED <<genVars, gidVars, curVars, pageVars, pairVars, parseVars>>

ColumnNext ==
    \/ \E nw \in NowValues, m \in {0, 1, maxMachineID},
          s \in {0, 1, maxSequence} : Mint(nw, m, s)
    \/ StoreGid
    \/ LoadGid

ColumnSpec == ColumnInit /\ [][ColumnNext]_vars

\* C24: for 0 <= now < 2^41 the id is below 2^63 and its three fields are
\* the timestamp, the tag and the sequence it was built from, and the id
\* read back from the signed 64-bit column is the id that was stored.
C24_FitsSigned ==
    (minted # None /\ ~U64Less(MaxTimestamp, minted[1].now)) =>
        LET m == minted[1]
        IN  /\ U64Less(m.id, Cutoff63)
            /\ ShiftRight64(m.id, timestampShift) = m.now
            /\ BitAnd64(ShiftRight64(m.id, machineIDShift),
                        U64(maxMachineID)) = U64(m.machineID)
            /\ BitAnd64(m.id, U64(maxSequence)) = U64(m.sequence)
            /\ column # None => ~column[1].neg /\ column[1].mag = m.id
            /\ loaded # None => loaded[1] = m.id

\* the largest id: every field at its maximum, stored and read back
C24_Witness ==
    /\ minted # None
    /\ minted[1].now = MaxTimestamp
    /\ minted[1].machineID = maxMachineID
    /\ minted[1].sequence = maxSequence
    /\ minted[1].id = <<32767, LimbBase - 1, LimbBase - 1, LimbBase - 1>>
    /\ loaded # None

(***************************************************************************)
(* What a list handler writes for one request.                             *)
(***************************************************************************)
\* the (created_at, id) a token stands for is that of row r
PointsAt(tokenText, r) ==
    LET At(cur) ==
            /\ cur.err = Nil
            /\ cur.ok
            /\ Instant(cur.createdAt) = Instant(r.created_at)
            /\ cur.id = r.id
    IN  At(decodeTenantCursor(tokenText))

\* C25: whenever a list handler writes has_more = true, next_cursor is a
\* non-empty token that decodes, found, to the (createdAt, id) of the last
\* row of the data written with it.
C25_CursorOfLastRow ==
    \A i \in DOMAIN written :
        (~written[i].error /\ written[i].has_more) =>
            /\ written[i].next_cursor # << >>
            /\ written[i].data # << >>
            /\ PointsAt(written[i].next_cursor,
                        written[i].data[Len(written[i].data)])

\* the limit parameter of the request is refused by ParsePageParams
BadLimit ==
    /\ request # None
    /\ ParsePageParams(request[1].limit, request[1].cursor, defaultLimit,
                       maxLimit).err # Nil

\* C26: a request whose limit is not an integer or is below 1 is answered
\* with exactly one error response, and no page of data is written.
C26_BadLimitOneError ==
    (lpc = "answered" /\ BadLimit) =>
        /\ Len(written) = 1
        /\ written[1].error

(***************************************************************************)
(* A walk over the stores of a tenant while stores are created and        *)
(* deleted.  A store keeps its id and created_at for as long as it exists. *)
(***************************************************************************)
AllRows == UNION Collections

StoreRequests ==
    [handler : {"handlerTenantStoresList"}, user : BOOLEAN,
     limit : { << >>, Str(<<"1">>), Str(<<"2">>), Str(<<"0">>) },
     cursor : { << >> }, store : StoreParams]

\* a page has been received and the next is yet to be requested
BetweenRequests ==
    /\ lpc = "answered"
    /\ ~Received.error
    /\ Received.has_more

\* CreateStoreForTenant commits: the id is gen_random_uuid(), never in the
\* table before, and created_at is now(), the time its transaction began
InsertStore(r) ==
    /\ BetweenRequests
    /\ churn.count < MaxChurn
    /\ \A o \in churn.used : o.id # r.id
    /\ rows' = rows \cup {r}
    /\ churn' = [churn EXCEPT !.used = @ \cup {r}, !.count = @ + 1]
    /\ UNCHANGED <<request, written, pages, lpc>>
    /\ UNCHANGED <<genVars, gidVars, curVars, pairVars, colVars, parseVars>>

\* DeleteStoreForTenant
DeleteStore(r) ==
    /\ BetweenRequests
    /\ churn.count < MaxChurn
    /\ r \in rows
    /\ rows' = rows \ {r}
    /\ churn' = [churn EXCEPT !.steady = @ \ {r}, !.count = @ + 1]
    /\ UNCHANGED <<request, written, pages, lpc>>
    /\ UNCHANGED <<genVars, gidVars, curVars, pairVars, colVars, parseVars>>

ChurnNext ==
    \/ \E req \in StoreRequests : Start(req)
    \/ Serve
    \/ Follow
    \/ Finish
    \/ GiveUp
    \/ \E r \in AllRows : InsertStore(r)
    \/ \E r \in AllRows : DeleteStore(r)

ChurnSpec == ListInit /\ [][ChurnNext]_vars

\* C27: with rows inserted and deleted between the requests of a walk, no
\* row is returned twice, and a finished walk from an empty cursor has
\* returned every row that was there from its beginning to its end.
C27_StableUnderChurn ==
    LET got == RowsOf(pages)
    IN  /\ \A i, j \in 1 .. Len(got) : i # j => got[i].id # got[j].id
        /\ (lpc = "done" /\ FromTheTop) =>
               \A r \in churn.steady : \E i \in 1 .. Len(got) : got[i] = r

\* a finished walk during which a row already returned was deleted and a
\* row inserted below the cursor was returned
C27_Witness ==
    /\ lpc = "done"
    /\ FromTheTop
    /\ churn.count = MaxChurn
    /\ Len(pages) >= 3
    /\ Cardinality(churn.steady) >= 2
    /\ \E i \in 1 .. Len(RowsOf(pages)) : RowsOf(pages)[i] \notin rows
    /\ \E i \in 1 .. Len(RowsOf(pages)) :
           /\ RowsOf(pages)[i] \in rows
           /\ RowsOf(pages)[i] \notin churn.steady

(***************************************************************************)
(* The cursors of a walk.                                                  *)
(***************************************************************************)
\* token a stands for a position strictly below that of token b
CursorBelow(a, b) ==
    LET Below(ca, cb) ==
            /\ ca.ok
            /\ cb.ok
            /\ KeysetBefore(Row(ca.createdAt, ca.id), cb.createdAt, cb.id)
    IN  Below(decodeTenantCursor(a), decodeTenantCursor(b))

\* the requests answered so far with a page that has more, the one just
\* answered included
Exchanges ==
    pages \o (IF lpc = "answered" /\ ~Received.error
              THEN <<[req |-> request[1], resp |-> Received]>>
              ELSE << >>)

\* C28: the next_cursor of a page is strictly below the cursor of the request
\* it answers, and over a fixed collection the pages with has_more = true
\* are no more than the rows, so the walk comes to has_more = false.
C28_CursorDescends ==
    /\ \A i \in DOMAIN Exchanges :
           (Exchanges[i].resp.has_more /\ Exchanges[i].req.cursor # << >>)
               => CursorBelow(Exchanges[i].resp.next_cursor,
                              Exchanges[i].req.cursor)
    /\ Cardinality({ i \in DOMAIN Exchanges : Exchanges[i].resp.has_more })
           <= Cardinality(rows)

\* the third page of a walk, with more to come: its request carried the
\* cursor of the second page, and its next_cursor is below that
C28_Witness ==
    /\ lpc = "answered"
    /\ Len(pages) = 2
    /\ ~Received.error
    /\ Received.has_more
    /\ request[1].cursor = pages[2].resp.next_cursor
    /\ CursorBelow(Received.next_cursor, request[1].cursor)

(***************************************************************************)
(* ParsePageParams on its own: the limit and cursor parameters of a        *)
(* request's query, and the defaultLimit and maxLimit of the caller.       *)
(***************************************************************************)
MaxLimitArg   == 3
MaxLimitValue == 5

\* defaultLimit and maxLimit: the handlers' own, and small ones
LimitArgs ==
    { <<d, m>> \in (1 .. MaxLimitArg) \X (1 .. MaxLimitArg) : d <= m }
        \cup { <<defaultLimit, maxLimit>> }

\* the limit parameter: absent, the decimal text of a number, or other text
LimitTexts ==
    { FormatUint(U64(n)) : n \in 0 .. MaxLimitValue }
        \cup { FormatUint(U64(maxLimit)) }
        \cup LimitParams

CursorTexts ==
    { << >>, Str(<<"!", "!", "!">>), Str(<<"e", "y", "J", "9", "=">>) }

ParseInit ==
    /\ GeneratorIdle
    /\ GIDIdle
    /\ CursorIdle
    /\ PageIdle
    /\ PairIdle
    /\ ColumnIdle
    /\ ParseIdle

\* a handler calls ParsePageParams(r, defaultLimit, maxLimit)
CallParsePageParams(limitParam, cursorParam, defaultValue, maxValue) ==
    /\ pageCall' = Some([limit |-> limitParam, cursor |-> cursorParam,
                         defaultLimit |-> defaultValue,
                         maxLimit |-> maxValue])
    /\ pageOut' = Some(ParsePageParams(limitParam, cursorParam,
                                       defaultValue, maxValue))
    /\ UNCHANGED <<genVars, gidVars, curVars, pageVars, pairVars, colVars>>

ParseNext ==
    \E l \in LimitTexts, c \in CursorTexts, a \in LimitArgs :
        CallParsePageParams(l, c, a[1], a[2])

ParseSpec == ParseInit /\ [][ParseNext]_vars

\* C29: when ParsePageParams succeeds, with 1 <= defaultLimit <= maxLimit,
\* the limit is within 1 .. maxLimit: defaultLimit when the parameter is
\* absent, the number given when that is within 1 .. maxLimit, maxLimit when
\* it is above; and the cursor is the cursor parameter.
C29_LimitWithinBounds ==
    (pageOut # None /\ pageOut[1].err = Nil) =>
        LET in  == pageCall[1]
            out == pageOut[1].params
        IN  /\ 1 <= out.Limit
            /\ out.Limit <= in.maxLimit
            /\ in.limit = << >> => out.Limit = in.defaultLimit
            /\ \A n \in 1 .. (maxLimit + 1) :
                   in.limit = FormatUint(U64(n)) =>
                       out.Limit = IF n > in.maxLimit THEN in.maxLimit ELSE n
            /\ out.Cursor = in.cursor

\* a limit above maxLimit, clamped, with a cursor alongside
C29_Witness ==
    /\ pageOut # None
    /\ pageOut[1].err = Nil
    /\ pageCall[1].limit = FormatUint(U64(maxLimit + 1))
    /\ pageCall[1].maxLimit = maxLimit
    /\ pageOut[1].params.Limit = maxLimit
    /\ pageOut[1].params.Cursor # << >>

(***************************************************************************)
(* Parse and the canonical text.                                           *)
(***************************************************************************)
\* a client's text was parsed, and accepted
Accepted == op = <<"Parse">> /\ parsed[1].err = Nil

\* C30: Parse accepts only canonical text: for every text s it accepts,
\* Parse(s).String() is s.
C30_OnlyCanonical ==
    Accepted => String(parsed[1].gid) = text

\* the decimal text of the number a base-10 text stands for
Canonical(digits) ==
    IF Significant(digits) = << >> THEN Str(<<"0">>)
    ELSE Significant(digits)

\* C30 amended: for every text s that Parse accepts, Parse(s).String() is s
\* with the leading zeros of its id segment removed (an id of zeros alone
\* becoming "0"), and the accepted texts that denote the same GID are those
\* with the same type segment that differ in leading zeros of the id.
C30_CanonicalButZeros ==
    Accepted =>
        LET parts == SplitRemainder(TrimPrefix(text, Prefix))
        IN  /\ String(parsed[1].gid)
                   = Prefix \o parts[1] \o <<Slash>> \o Canonical(parts[2])
            /\ \A t \in CanonicalLike :
                   Parse(t).err = Nil =>
                       LET other == SplitRemainder(TrimPrefix(t, Prefix))
                       IN  Parse(t).gid = parsed[1].gid
                               <=> /\ other[1] = parts[1]
                                   /\ Canonical(other[2])
                                          = Canonical(parts[2])

\* an id written with leading zeros is accepted
C30_Witness ==
    /\ Accepted
    /\ text = Prefix \o EntityProduct \o <<Slash>>
                  \o Str(<<"0", "1", "0">>)
    /\ parsed[1].gid = GID(EntityProduct, U64(10))
    /\ String(parsed[1].gid) # text

=============================================================================
